---- MODULE Spec2Model ----
(***************************************************************************)
(* Model of the resume PDF layout routine generateResumePDF                *)
(* (client/src/lib/pdf-generator.ts).                                      *)
(*                                                                         *)
(* Representation of the data:                                             *)
(*  - a short string field is a TLA+ string, "" when empty or missing      *)
(*    (both are falsy in the source);                                      *)
(*  - a long text (summary, description, highlight) is the width in mm its *)
(*    text has on one line, 0 when empty or missing; splitTextToSize cuts  *)
(*    it in lines of the width it is given;                                *)
(*  - all vertical offsets are integers in mm: every spacing of the source *)
(*    is a whole number, so currentY > pageHeight - margin compares the    *)
(*    same with the A4 height rounded to 297.                              *)
(***************************************************************************)
EXTENDS Integers, Sequences, FiniteSets, TLC

\* ------------------------------------------------------------------ bounds
MaxExp == 2
MaxHighlights == 2
MaxEdu == 2
MaxSkills == 3
LongLines == 60
MaxCalls == 3
NumRequests == 2
NumCreates == 2
NumSignups == 2
MaxTimers == 3
MaxSaves == 8
MaxEarlier == 2
MaxId == 4

\* ------------------------------------------------- page geometry and fonts
pageWidth == 210
pageHeight == 297
margin == 15
CharWidth == 2
SectionTitleAdvance == 7
FailureMessage == "Failed to generate PDF. Please try again."

Black == "0,0,0"
Grey == "100,100,100"

\* ------------------------------------------------------------ templateStyles
StyledTemplates == {"modern", "professional", "creative", "simple", "elegant"}

templateStyles ==
  [t \in StyledTemplates |->
     CASE t = "modern" ->
            [headerColor |-> "#3b82f6", accentColor |-> "#93c5fd",
             sectionSpacing |-> 10, bulletSpacing |-> 5, lineSpacing |-> 5]
       [] t = "professional" ->
            [headerColor |-> "#1e40af", accentColor |-> "#60a5fa",
             sectionSpacing |-> 12, bulletSpacing |-> 6, lineSpacing |-> 6]
       [] t = "creative" ->
            [headerColor |-> "#8b5cf6", accentColor |-> "#c4b5fd",
             sectionSpacing |-> 8, bulletSpacing |-> 4, lineSpacing |-> 4]
       [] t = "simple" ->
            [headerColor |-> "#000000", accentColor |-> "#d1d5db",
             sectionSpacing |-> 15, bulletSpacing |-> 7, lineSpacing |-> 7]
       [] t = "elegant" ->
            [headerColor |-> "#1f2937", accentColor |-> "#9ca3af",
             sectionSpacing |-> 11, bulletSpacing |-> 5, lineSpacing |-> 5]]

\* Names every object literal inherits from Object.prototype: looked up in
\* templateStyles they yield a function or an object, which is truthy
InheritedNames ==
  {"constructor", "toString", "valueOf", "hasOwnProperty", "__proto__"}

\* What style.headerColor and style.accentColor read from such a value. Its
\* spacings are undefined as well; they are not modelled, and the inputs
\* with such a template have no section, so that no step reads them.
InheritedMember ==
  [headerColor |-> "undefined", accentColor |-> "undefined"]

\* templateStyles[template] || templateStyles.modern
StyleOf(template) ==
  IF template \in StyledTemplates THEN templateStyles[template]
  ELSE IF template \in InheritedNames THEN InheritedMember
  ELSE templateStyles["modern"]

\* --------------------------------------------------------------- helpers
\* a || b on strings
OrElse(s, d) == IF s = "" THEN d ELSE s

\* doc.getTextWidth of a short string
getTextWidth(s) == Len(s) * CharWidth

\* doc.splitTextToSize(text, maxWidth).length for a text of width w
splitTextToSize(w, maxWidth) ==
  IF w = 0 THEN 1 ELSE (w + maxWidth - 1) \div maxWidth

\* A mutated page check that leaves the cursor where it was after a break.
checkAndAddPageKeep(pages, y) ==
  IF y > pageHeight - margin
  THEN [y |-> y, pages |-> pages + 1, broke |-> TRUE]
  ELSE [y |-> y, pages |-> pages, broke |-> FALSE]

\* checkAndAddPage(doc, currentY, margin, pageHeight): the cursor it returns
\* and the page count of the document afterwards (doc.addPage appends a page
\* and makes it the current one).
checkAndAddPage(pages, y) ==
  IF y > pageHeight - margin
  THEN [y |-> margin + 10, pages |-> pages + 1, broke |-> TRUE]
  ELSE [y |-> y, pages |-> pages, broke |-> FALSE]

\* One instruction of the document: a text (or rule) at (x, y) on a page;
\* lines > 1 for a wrapped block, whose lines the cursor accounts for with
\* `spacing` each.
Op(kind, text, x, y, lines, spacing, page, color, fstyle, fsize) ==
  [kind |-> kind, text |-> text, x |-> x, y |-> y, lines |-> lines,
   spacing |-> spacing, page |-> page, color |-> color,
   fstyle |-> fstyle, fsize |-> fsize, wrap |-> 0]

\* The instruction o, its text wrapped by doc.splitTextToSize(text, maxWidth)
WrapAt(o, maxWidth) == [o EXCEPT !.wrap = maxWidth]

\* The record of one page check: where in the instruction stream it was made.
Check(yIn, r, pagesBefore, at) ==
  [yIn |-> yIn, yOut |-> r.y, broke |-> r.broke,
   pagesBefore |-> pagesBefore, pagesAfter |-> r.pages, at |-> at]

\* addSectionTitle(doc, title, y, style, margin): the instruction it draws
addSectionTitle(title, y, st, page) ==
  Op("sectionTitle", title, margin, y, 1, 0, page, st.headerColor, "bold", 14)

\* y + 7, the cursor addSectionTitle returns
addSectionTitleY(y) == y + SectionTitleAdvance

contentWidth == pageWidth - 2 * margin

\* ------------------------------------------------------------- the inputs
ShortText == contentWidth \div 2
LongText == LongLines * contentWidth

\* export const resumeTemplate = z.enum([...]): the ids validation accepts
resumeTemplate == {"modern", "classic", "professional", "creative"}

AllTemplates == StyledTemplates \cup {"classic"}

\* All sequences over S of length at most n
RECURSIVE SeqsUpTo(_, _)
SeqsUpTo(S, n) ==
  IF n = 0 THEN {<<>>}
  ELSE LET shorter == SeqsUpTo(S, n - 1)
       IN  shorter \cup {Append(q, e) : q \in {t \in shorter : Len(t) = n - 1}, e \in S}

BaseInfo ==
  [fullName |-> "Jane Doe", professionalTitle |-> "Engineer",
   email |-> "jane@doe.io", phone |-> "", location |-> "Paris",
   website |-> "", summary |-> 0]

BaseExp ==
  [title |-> "Developer", company |-> "Acme", location |-> "Berlin",
   startDate |-> "2020-01", endDate |-> "2022-06", current |-> FALSE,
   description |-> ShortText, highlights |-> <<ShortText>>]

BaseEdu ==
  [institution |-> "MIT", degree |-> "BSc", field |-> "CS",
   location |-> "", startDate |-> "2015", endDate |-> "2019",
   current |-> FALSE, description |-> 0]

BaseSkill == [name |-> "TLA+", category |-> ""]

Resume(template, info, experience, education, skills) ==
  [template |-> template,
   content |-> [personalInfo |-> info, experience |-> experience,
                education |-> education, skills |-> skills]]

\* Every combination of missing personal fields, with and without sections.
PersonalInfos ==
  [fullName : {"", "Jane Doe"}, professionalTitle : {"", "Engineer"},
   email : {"", "jane@doe.io"}, phone : {"", "555-0100"},
   location : {"", "Paris"}, website : {"", "doe.io"},
   summary : {0, ShortText}]

PersonalResumes ==
  {Resume("modern", info, <<>>, <<>>, <<>>) : info \in PersonalInfos}
  \cup {Resume("modern", info, <<BaseExp>>, <<BaseEdu>>, <<BaseSkill>>) :
          info \in PersonalInfos}

\* Every template with short and long summaries.
TemplateResumes ==
  {Resume(t, [BaseInfo EXCEPT !.summary = s], x[1], x[2], x[3]) :
     t \in AllTemplates, s \in {0, ShortText, LongText},
     x \in {<<<<>>, <<>>, <<>>>>,
            <<<<[BaseExp EXCEPT !.description = LongText]>>, <<BaseEdu>>,
              <<BaseSkill>>>>}}

\* Experience lists whose entries differ in what moves the cursor.
LayoutEntries ==
  {[BaseExp EXCEPT !.description = d, !.highlights = h] :
     d \in {0, LongText}, h \in SeqsUpTo({ShortText}, MaxHighlights)}

LayoutResumes ==
  {Resume(t, [BaseInfo EXCEPT !.summary = s], e, x[1], x[2]) :
     t \in {"modern", "simple"}, s \in {0, LongText},
     e \in SeqsUpTo(LayoutEntries, MaxExp),
     x \in {<<<<>>, <<>>>>, <<<<>>, <<BaseSkill>>>>,
            <<<<BaseEdu>>, <<BaseSkill>>>>}}

\* One experience entry with every combination of missing fields.
ExperienceEntries ==
  [title : {"", "Developer"}, company : {"", "Acme"},
   location : {"", "Berlin"}, startDate : {"", "2020-01"},
   endDate : {"", "2022-06"}, current : BOOLEAN,
   description : {0, ShortText},
   highlights : SeqsUpTo({ShortText, LongText}, MaxHighlights)]

EntryResumes ==
  {Resume("modern", BaseInfo, <<e>>, <<>>, <<>>) : e \in ExperienceEntries}

\* Resumes in which every field that has a placeholder is missing at once.
BlankInfo ==
  [fullName |-> "", professionalTitle |-> "", email |-> "", phone |-> "",
   location |-> "", website |-> "", summary |-> 0]

BlankExp ==
  [title |-> "", company |-> "", location |-> "", startDate |-> "",
   endDate |-> "", current |-> FALSE, description |-> 0, highlights |-> <<>>]

BlankEdu ==
  [institution |-> "", degree |-> "", field |-> "", location |-> "",
   startDate |-> "", endDate |-> "", current |-> FALSE, description |-> 0]

BlankResumes ==
  {Resume(t, BlankInfo, x, <<BlankEdu>>, <<>>) :
     t \in {"modern", "classic"}, x \in {<<BlankExp>>, <<BlankExp, BaseExp>>}}

\* Education: one entry with every combination of missing fields, and lists
\* whose entries differ in what moves the cursor, after a short or a long
\* experience section.
EducationEntries ==
  [institution : {"", "MIT"}, degree : {"", "BSc"}, field : {"", "CS"},
   location : {"", "Boston"}, startDate : {"", "2015"},
   endDate : {"", "2019"}, current : BOOLEAN, description : {0, ShortText}]

EducationLayoutEntries ==
  {[BaseEdu EXCEPT !.location = l, !.description = d] :
     l \in {"", "Boston"}, d \in {0, LongText}}

EducationResumes ==
  {Resume("modern", BaseInfo, <<>>, <<e>>, <<>>) : e \in EducationEntries}
  \cup {Resume(t, BaseInfo, x, e, <<>>) :
          t \in {"modern", "creative"},
          x \in {<<>>, <<[BaseExp EXCEPT !.description = LongText]>>},
          e \in SeqsUpTo(EducationLayoutEntries, MaxEdu)}

\* Skills with and without categories, two of the categories written as
\* integers, after a short or a long section.
Skills == [name : {"TLA+", "Go"}, category : {"", "Tools", "7", "10"}]

SkillResumes ==
  {Resume("modern", BaseInfo, <<>>, <<>>, k) :
     k \in SeqsUpTo(Skills, MaxSkills)}
  \cup {Resume("modern", BaseInfo, <<>>,
                <<[BaseEdu EXCEPT !.description = LongText]>>, <<k>>) :
          k \in Skills}

\* A highlight that, with its bullet, fills the content width exactly, next
\* to a description of the same width.
WrapResumes ==
  {Resume(t, BaseInfo,
          <<[BaseExp EXCEPT !.description = contentWidth,
                            !.highlights = <<contentWidth - getTextWidth("* ")>>]>>,
          <<>>, <<>>) : t \in {"modern", "elegant"}}

\* Lists whose entries can be told apart by their first line.
OrderResumes ==
  {Resume("modern", BaseInfo, x, e, <<>>) :
     x \in SeqsUpTo({BaseExp, [BaseExp EXCEPT !.title = "Manager"]}, MaxExp),
     e \in SeqsUpTo({BaseEdu, [BaseEdu EXCEPT !.institution = "ETH"]}, MaxEdu)}

\* A template named like a member of Object.prototype, without sections.
InheritedResumes ==
  {Resume("constructor", info, <<>>, <<>>, <<>>) : info \in {BaseInfo, BlankInfo}}

Resumes ==
  PersonalResumes \cup TemplateResumes \cup LayoutResumes \cup EntryResumes
  \cup BlankResumes \cup EducationResumes \cup SkillResumes
  \cup WrapResumes \cup OrderResumes \cup InheritedResumes

\* ---------------------------------------------------------------- state
VARIABLES
  resume,     \* the argument of generateResumePDF
  pc,         \* the block of generateResumePDF that runs next
  calls,      \* how many times the layout has been started
  currentY,   \* the cursor
  numPages,   \* doc.internal.pages.length - 1
  curPage,    \* the page the document draws on
  textColor,  \* the document's text color
  ops,        \* the instructions drawn so far, in order
  checks,     \* the page checks made so far, in order
  expIdx,     \* the experience entry the loop is at
  hlIdx,      \* the highlight the inner loop is at
  eduIdx,     \* the education entry the loop is at
  groupIdx,   \* the skill category the loop is at
  footIdx,    \* the page the numbering loop is at
  result,     \* what the call returned, if it has returned
  error,      \* the error the call threw ("" when none)
  history,    \* the calls that have completed, oldest first
  flow,       \* the download handler that called generateResumePDF
  posted,     \* the state of POST /api/resumes/:id/download
  downloads,  \* the download counter the server stores for the resume
  toast,      \* what the download handler told the user ("" when nothing)
  aiGenerationCount,  \* per user: the stored counter, or NoDoc
  requests,   \* per request slot: the AI request in flight
  served,     \* per user: the generations the AI service has produced
  resumeDocs, \* the resumes collection: document id -> stored fields
  sessions,   \* the users with an authenticated session
  currentId,  \* FirestoreStorage.currentUserId and currentResumeId
  countersDoc,   \* the counters document, or NoCounters
  initCounters,  \* the position of the constructor's initCounters()
  creating,   \* per call slot: the createUser or createResume in flight
  stored,     \* per kind: the ids of the documents that exist
  userDocs,   \* the users collection: document id -> username
  signups,    \* per slot: the registration or Firebase login in flight
  hookUser,   \* the user of the effect of useSessionHandler that is in place
  mounted,    \* whether the component that uses the hook is mounted
  activityTimerRef,  \* activityTimerRef.current (0 for null)
  timers,     \* the pending timeouts: timer id -> seconds left
  timerCount, \* how many timeouts have been set
  pings,      \* how many POST /api/ping have been sent
  currentStep,   \* the wizard's step index
  resumeId,   \* the wizard's resumeId (0 for null)
  saving,     \* the save of createResumeMutation in flight, if any
  posts,      \* how many POST /api/resumes of the wizard have succeeded
  saves,      \* how many saves the wizard has started
  wizardToast,   \* the title of the wizard's last toast
  navigated   \* whether the wizard has navigated to the resume

layoutVars == <<resume, pc, calls, currentY, numPages, curPage, textColor,
                ops, checks, expIdx, hlIdx, eduIdx, groupIdx, footIdx, result,
                error>>

downloadVars == <<flow, posted, downloads, toast>>

aiVars == <<aiGenerationCount, requests, served>>

storeVars == <<resumeDocs, sessions>>

idVars == <<currentId, countersDoc, initCounters, creating, stored>>

\* The state of the components further down
authVars == <<userDocs, signups>>

sessionVars == <<hookUser, mounted, activityTimerRef, timers, timerCount,
                 pings>>

wizardVars == <<currentStep, resumeId, saving, posts, saves, wizardToast,
                navigated>>

sideVars == <<idVars, authVars, sessionVars, wizardVars>>

\* What no statement of generateResumePDF reads or writes
otherVars == <<history, downloadVars, aiVars, storeVars, sideVars>>

vars == <<layoutVars, otherVars>>

content == resume.content
style == StyleOf(resume.template)

\* The state in which generateResumePDF is called with one of the resumes R
LayoutInit(R) ==
  /\ resume \in R
  /\ pc = "start"
  /\ calls = 0
  /\ currentY = 0
  /\ numPages = 0
  /\ curPage = 0
  /\ textColor = Black
  /\ ops = <<>>
  /\ checks = <<>>
  /\ expIdx = 0
  /\ hlIdx = 0
  /\ eduIdx = 0
  /\ groupIdx = 0
  /\ footIdx = 0
  /\ result = [returned |-> FALSE, document |-> <<>>]
  /\ error = ""

\* No download handler is running and the server has counted no download
DownloadIdle ==
  /\ flow = "none"
  /\ posted = "no"
  /\ downloads = 0
  /\ toast = ""

\* No user has asked for an AI generation
AIIdle ==
  /\ aiGenerationCount = <<>>
  /\ requests = <<>>
  /\ served = <<>>

\* No resume is stored and nobody is logged in
StoreIdle ==
  /\ resumeDocs = <<>>
  /\ sessions = {}

\* No FirestoreStorage has been constructed
IdIdle ==
  /\ currentId = <<>>
  /\ countersDoc = <<>>
  /\ initCounters = [pc |-> "none"]
  /\ creating = <<>>
  /\ stored = <<>>

\* No user is stored and nobody signs up
AuthIdle ==
  /\ userDocs = <<>>
  /\ signups = <<>>

\* No component uses useSessionHandler
SessionIdle ==
  /\ hookUser = "none"
  /\ mounted = FALSE
  /\ activityTimerRef = 0
  /\ timers = <<>>
  /\ timerCount = 0
  /\ pings = 0

NoSave == [pending |-> FALSE, trigger |-> "", method |-> "", id |-> 0, from |-> 0]

\* ResumeWizard as mounted: step 0, no resumeId, nothing in flight
WizardMounted ==
  /\ currentStep = 0
  /\ resumeId = 0
  /\ saving = NoSave
  /\ posts = 0
  /\ saves = 0
  /\ wizardToast = ""
  /\ navigated = FALSE

Init ==
  /\ LayoutInit(Resumes)
  /\ history = <<>>
  /\ DownloadIdle
  /\ AIIdle
  /\ StoreIdle
  /\ IdIdle
  /\ AuthIdle
  /\ SessionIdle
  /\ WizardMounted

\* A mutated construction that keeps the document and the cursor in module
\* scope: a later call goes on where the one before it stopped.
CreateShared ==
  /\ UNCHANGED otherVars
  /\ pc = "start"
  /\ pc' = "header"
  /\ calls' = calls + 1
  /\ IF calls = 0
     THEN /\ numPages' = 1
          /\ curPage' = 1
          /\ currentY' = margin
     ELSE UNCHANGED <<numPages, curPage, currentY>>
  /\ expIdx' = 0
  /\ hlIdx' = 0
  /\ eduIdx' = 0
  /\ groupIdx' = 0
  /\ footIdx' = 0
  /\ UNCHANGED <<resume, textColor, ops, checks, result, error>>

\* new jsPDF(...), the style and the page geometry; let currentY = margin.
\* The document, the cursor and the loop variables are locals of the call:
\* each call starts with an empty one-page document in the default text
\* color.
Create ==
  /\ UNCHANGED otherVars
  /\ pc = "start"
  /\ pc' = "header"
  /\ calls' = calls + 1
  /\ numPages' = 1
  /\ curPage' = 1
  /\ currentY' = margin
  /\ textColor' = Black
  /\ ops' = <<>>
  /\ checks' = <<>>
  /\ expIdx' = 0
  /\ hlIdx' = 0
  /\ eduIdx' = 0
  /\ groupIdx' = 0
  /\ footIdx' = 0
  /\ UNCHANGED <<resume, result, error>>

\* content.personalInfo.fullName || "Full Name"
fullNameText(info) == OrElse(info.fullName, "Full Name")

\* content.personalInfo.professionalTitle || "Professional Title"
professionalTitleText(info) ==
  OrElse(info.professionalTitle, "Professional Title")

\* A mutated header that treats one template by its name: "classic" gets
\* its name centred.
HeaderByName ==
  /\ UNCHANGED otherVars
  /\ pc = "header"
  /\ pc' = "contact"
  /\ textColor' = style.headerColor
  /\ ops' = ops \o
       <<Op("name", fullNameText(content.personalInfo),
            IF resume.template = "classic" THEN pageWidth \div 2 ELSE margin,
            currentY + 10, 1, 0, curPage, style.headerColor, "bold", 24),
         Op("title", professionalTitleText(content.personalInfo),
            margin, currentY + 18, 1, 0, curPage, style.headerColor,
            "normal", 14)>>
  /\ UNCHANGED <<resume, calls, currentY, numPages, curPage, checks, expIdx,
                 hlIdx, eduIdx, groupIdx, footIdx, result, error>>

\* Header section: the name and the professional title
Header ==
  /\ UNCHANGED otherVars
  /\ pc = "header"
  /\ pc' = "contact"
  /\ textColor' = style.headerColor
  /\ ops' = ops \o
       <<Op("name", fullNameText(content.personalInfo), margin, currentY + 10,
            1, 0, curPage, style.headerColor, "bold", 24),
         Op("title", professionalTitleText(content.personalInfo),
            margin, currentY + 18, 1, 0, curPage, style.headerColor,
            "normal", 14)>>
  /\ UNCHANGED <<resume, calls, currentY, numPages, curPage, checks, expIdx,
                 hlIdx, eduIdx, groupIdx, footIdx, result, error>>

\* A mutated contact line that keeps the empty fields.
contactInfoUnfiltered(info) ==
  <<[icon |-> "mail", text |-> info.email],
    [icon |-> "phone", text |-> info.phone],
    [icon |-> "pin", text |-> info.location],
    [icon |-> "globe", text |-> info.website]>>

\* The contact fields that are not empty, in the order of the source
contactInfo(info) ==
  SelectSeq(<<[icon |-> "mail", text |-> info.email],
              [icon |-> "phone", text |-> info.phone],
              [icon |-> "pin", text |-> info.location],
              [icon |-> "globe", text |-> info.website]>>,
            LAMBDA c : c.text # "")

\* A mutated contact line that gives every field a quarter of the width,
\* however many fields are drawn.
ContactFixedSlots ==
  /\ UNCHANGED otherVars
  /\ pc = "contact"
  /\ pc' = "divider"
  /\ currentY' = currentY + 25
  /\ textColor' = Black
  /\ LET ci == contactInfo(content.personalInfo)
     IN  ops' = ops \o
           [k \in 1..Len(ci) |->
              Op("contact", ci[k].icon \o " " \o ci[k].text,
                 margin + ((k - 1) * (pageWidth - 2 * margin)) \div 4,
                 currentY + 25, 1, 0, curPage, Black, "normal", 10)]
  /\ UNCHANGED <<resume, calls, numPages, curPage, checks, expIdx, hlIdx,
                 eduIdx, groupIdx, footIdx, result, error>>

\* Contact information: one line, the fields spread over the content width
Contact ==
  /\ UNCHANGED otherVars
  /\ pc = "contact"
  /\ pc' = "divider"
  /\ currentY' = currentY + 25
  /\ textColor' = Black
  /\ LET ci == contactInfo(content.personalInfo)
     IN  ops' = ops \o
           [k \in 1..Len(ci) |->
              Op("contact", ci[k].icon \o " " \o ci[k].text,
                 margin + ((k - 1) * (pageWidth - 2 * margin)) \div Len(ci),
                 currentY + 25, 1, 0, curPage, Black, "normal", 10)]
  /\ UNCHANGED <<resume, calls, numPages, curPage, checks, expIdx, hlIdx,
                 eduIdx, groupIdx, footIdx, result, error>>

\* Divider: a rule in the accent color
Divider ==
  /\ UNCHANGED otherVars
  /\ pc = "divider"
  /\ pc' = "summary"
  /\ currentY' = currentY + 10
  /\ ops' = Append(ops, Op("divider", "", margin, currentY + 10, 1, 0,
                           curPage, style.accentColor, "rule", 0))
  /\ UNCHANGED <<resume, calls, numPages, curPage, textColor, checks, expIdx,
                 hlIdx, eduIdx, groupIdx, footIdx, result, error>>

\* A mutated guard that lays the summary out even when it is empty.
hasSummaryAlways(c) == TRUE

\* if (content.personalInfo.summary)
hasSummary(c) == c.personalInfo.summary # 0

\* if (content.experience && content.experience.length > 0)
hasExperience(c) == Len(c.experience) > 0

\* if (content.education && content.education.length > 0)
hasEducation(c) == Len(c.education) > 0

\* if (content.skills && content.skills.length > 0)
hasSkills(c) == Len(c.skills) > 0

\* The page the document draws on after a page check
PageAfter(r, page) == IF r.broke THEN r.pages ELSE page

\* Summary: skipped when empty; else a page check, the title and the text
Summary ==
  /\ UNCHANGED otherVars
  /\ pc = "summary"
  /\ pc' = "experience"
  /\ IF hasSummary(content)
     THEN LET r == checkAndAddPage(numPages, currentY + style.sectionSpacing)
              page == PageAfter(r, curPage)
              y1 == addSectionTitleY(r.y)
              summaryLines == splitTextToSize(content.personalInfo.summary,
                                              pageWidth - 2 * margin)
          IN  /\ checks' = Append(checks,
                   Check(currentY + style.sectionSpacing, r, numPages, Len(ops)))
              /\ numPages' = r.pages
              /\ curPage' = page
              /\ textColor' = Black
              /\ ops' = ops \o
                   <<addSectionTitle("Summary", r.y, style, page),
                     WrapAt(Op("summary", "", margin, y1, summaryLines,
                        style.lineSpacing, page, Black, "normal", 10), pageWidth - 2 * margin)>>
              /\ currentY' = y1 + summaryLines * style.lineSpacing
                                + style.sectionSpacing
     ELSE UNCHANGED <<checks, numPages, curPage, textColor, ops, currentY>>
  /\ UNCHANGED <<resume, calls, expIdx, hlIdx, eduIdx, groupIdx, footIdx,
                 result, error>>

\* Experience section: skipped when the list is empty; else a page check
\* and the section title
ExperienceSection ==
  /\ UNCHANGED otherVars
  /\ pc = "experience"
  /\ IF hasExperience(content)
     THEN LET r == checkAndAddPage(numPages, currentY)
              page == PageAfter(r, curPage)
          IN  /\ pc' = "expEntry"
              /\ expIdx' = 1
              /\ checks' = Append(checks, Check(currentY, r, numPages, Len(ops)))
              /\ numPages' = r.pages
              /\ curPage' = page
              /\ textColor' = style.headerColor
              /\ ops' = Append(ops, addSectionTitle("Experience", r.y, style, page))
              /\ currentY' = addSectionTitleY(r.y)
     ELSE /\ pc' = "education"
          /\ UNCHANGED <<expIdx, checks, numPages, curPage, textColor, ops,
                         currentY>>
  /\ UNCHANGED <<resume, calls, hlIdx, eduIdx, groupIdx, footIdx, result, error>>

\* A mutated date range that appends the end of the range although the
\* start is missing.
dateTextUnguarded(e) ==
  e.startDate \o (IF e.current THEN " - Present"
                  ELSE IF e.endDate # "" THEN " - " \o e.endDate
                  ELSE "")

\* The date range of an experience or education entry
dateText(e) ==
  IF e.startDate # ""
  THEN e.startDate \o (IF e.current THEN " - Present"
                       ELSE IF e.endDate # "" THEN " - " \o e.endDate
                       ELSE "")
  ELSE ""

\* A mutated title line that draws the field as it is.
expTitleTextRaw(exp) == exp.title

\* exp.title || "Position"
expTitleText(exp) == OrElse(exp.title, "Position")

\* exp.company || "Company"
companyText(exp) == OrElse(exp.company, "Company")

\* The title and company lines of an experience entry
ExpHeadOps(exp, y, page) ==
  <<Op("expTitle", expTitleText(exp), margin, y, 1, 0, page, Black, "bold", 12),
    Op("company", companyText(exp), margin, y + 5, 1, 0, page, Black,
       "normal", 11)>>

\* The date range, right-aligned on the title line, when there is one
ExpDateOps(exp, y, page) ==
  IF dateText(exp) # ""
  THEN <<Op("date", dateText(exp),
            pageWidth - margin - getTextWidth(dateText(exp)), y, 1, 0,
            page, Black, "normal", 11)>>
  ELSE <<>>

\* The location line, when there is one
ExpLocationOps(exp, y, page) ==
  IF exp.location # ""
  THEN <<Op("location", exp.location, margin, y + 10, 1, 0, page, Black,
            "italic", 10)>>
  ELSE <<>>

\* A mutated description that measures the paragraph and moves it to a new
\* page when it does not fit.
ExpDescriptionOpsMeasured(exp, y, st, page) ==
  IF exp.description # 0
  THEN LET n == splitTextToSize(exp.description, pageWidth - 2 * margin)
           y2 == IF exp.location # "" THEN y + 15 ELSE y + 10
           fits == y2 + n * st.lineSpacing <= pageHeight - margin
       IN  <<WrapAt(Op("description", "", margin, IF fits THEN y2 ELSE margin + 10,
                n, st.lineSpacing, IF fits THEN page ELSE page + 1, Black,
                "normal", 10), pageWidth - 2 * margin)>>
  ELSE <<>>

\* The description paragraph, when there is one
ExpDescriptionOps(exp, y, st, page) ==
  IF exp.description # 0
  THEN <<WrapAt(Op("description", "", margin,
            IF exp.location # "" THEN y + 15 ELSE y + 10,
            splitTextToSize(exp.description, pageWidth - 2 * margin),
            st.lineSpacing, page, Black, "normal", 10), pageWidth - 2 * margin)>>
  ELSE <<>>

\* A mutated entry that draws the description before the location line.
ExperienceEntryOpsSwapped(exp, y, st, page) ==
  ExpHeadOps(exp, y, page) \o ExpDateOps(exp, y, page)
  \o ExpDescriptionOps(exp, y, st, page) \o ExpLocationOps(exp, y, page)

\* The instructions of one experience entry whose cursor is y, up to its
\* description: title, company, date range, location, description
ExperienceEntryOps(exp, y, st, page) ==
  ExpHeadOps(exp, y, page) \o ExpDateOps(exp, y, page)
  \o ExpLocationOps(exp, y, page) \o ExpDescriptionOps(exp, y, st, page)

\* A mutated advance that steps a fixed 5 mm per line of the description,
\* whatever the template's line spacing.
EntryAdvanceFixedLine(e, y, st) ==
  (IF e.location # "" THEN y + 15 ELSE y + 10)
  + (IF e.description # 0
     THEN splitTextToSize(e.description, pageWidth - 2 * margin) * 5 + 3
     ELSE 0)

\* The cursor after the location and the description of an entry
EntryAdvance(e, y, st) ==
  (IF e.location # "" THEN y + 15 ELSE y + 10)
  + (IF e.description # 0
     THEN splitTextToSize(e.description, pageWidth - 2 * margin)
            * st.lineSpacing + 3
     ELSE 0)

\* One experience entry: a page check, then its lines
ExperienceEntry ==
  /\ UNCHANGED otherVars
  /\ pc = "expEntry"
  /\ LET exp == content.experience[expIdx]
         r == checkAndAddPage(numPages, currentY)
         page == PageAfter(r, curPage)
     IN  /\ checks' = Append(checks, Check(currentY, r, numPages, Len(ops)))
         /\ numPages' = r.pages
         /\ curPage' = page
         /\ ops' = ops \o ExperienceEntryOps(exp, r.y, style, page)
         /\ currentY' = EntryAdvance(exp, r.y, style)
  /\ textColor' = Black
  /\ pc' = "expBullets"
  /\ hlIdx' = 1
  /\ UNCHANGED <<resume, calls, expIdx, eduIdx, groupIdx, footIdx, result, error>>

\* A mutated bullet that is wrapped to the full content width although it
\* starts 2 mm to the right of the margin.
BulletFullWidth ==
  /\ UNCHANGED otherVars
  /\ pc = "expBullets"
  /\ hlIdx <= Len(content.experience[expIdx].highlights)
  /\ LET highlight == content.experience[expIdx].highlights[hlIdx]
         r == checkAndAddPage(numPages, currentY)
         page == PageAfter(r, curPage)
         bulletLines == splitTextToSize(getTextWidth("* ") + highlight,
                                        pageWidth - 2 * margin)
     IN  /\ checks' = Append(checks, Check(currentY, r, numPages, Len(ops)))
         /\ numPages' = r.pages
         /\ curPage' = page
         /\ ops' = Append(ops, WrapAt(Op("bullet", "", margin + 2, r.y, bulletLines,
                                  style.lineSpacing, page, textColor,
                                  "normal", 10), pageWidth - 2 * margin))
         /\ currentY' = r.y + bulletLines * style.lineSpacing
                          + style.bulletSpacing
  /\ hlIdx' = hlIdx + 1
  /\ UNCHANGED <<resume, pc, calls, textColor, expIdx, eduIdx, groupIdx,
                 footIdx, result, error>>

\* One bullet point: a page check, then the wrapped highlight
Bullet ==
  /\ UNCHANGED otherVars
  /\ pc = "expBullets"
  /\ hlIdx <= Len(content.experience[expIdx].highlights)
  /\ LET highlight == content.experience[expIdx].highlights[hlIdx]
         r == checkAndAddPage(numPages, currentY)
         page == PageAfter(r, curPage)
         bulletLines == splitTextToSize(getTextWidth("* ") + highlight,
                                        pageWidth - 2 * margin - 2)
     IN  /\ checks' = Append(checks, Check(currentY, r, numPages, Len(ops)))
         /\ numPages' = r.pages
         /\ curPage' = page
         /\ ops' = Append(ops, WrapAt(Op("bullet", "", margin + 2, r.y, bulletLines,
                                  style.lineSpacing, page, textColor,
                                  "normal", 10), pageWidth - 2 * margin - 2))
         /\ currentY' = r.y + bulletLines * style.lineSpacing
                          + style.bulletSpacing
  /\ hlIdx' = hlIdx + 1
  /\ UNCHANGED <<resume, pc, calls, textColor, expIdx, eduIdx, groupIdx,
                 footIdx, result, error>>

\* The end of one experience entry: currentY += style.sectionSpacing
ExperienceEntryEnd ==
  /\ UNCHANGED otherVars
  /\ pc = "expBullets"
  /\ hlIdx > Len(content.experience[expIdx].highlights)
  /\ currentY' = currentY + style.sectionSpacing
  /\ IF expIdx < Len(content.experience)
     THEN pc' = "expEntry" /\ expIdx' = expIdx + 1
     ELSE pc' = "education" /\ UNCHANGED expIdx
  /\ UNCHANGED <<resume, calls, numPages, curPage, textColor, ops, checks,
                 hlIdx, eduIdx, groupIdx, footIdx, result, error>>

\* Education section: skipped when the list is empty; else a page check
\* and the section title
EducationSection ==
  /\ UNCHANGED otherVars
  /\ pc = "education"
  /\ IF hasEducation(content)
     THEN LET r == checkAndAddPage(numPages, currentY)
              page == PageAfter(r, curPage)
          IN  /\ pc' = "eduEntry"
              /\ eduIdx' = 1
              /\ checks' = Append(checks, Check(currentY, r, numPages, Len(ops)))
              /\ numPages' = r.pages
              /\ curPage' = page
              /\ textColor' = style.headerColor
              /\ ops' = Append(ops, addSectionTitle("Education", r.y, style, page))
              /\ currentY' = addSectionTitleY(r.y)
     ELSE /\ pc' = "skills"
          /\ UNCHANGED <<eduIdx, checks, numPages, curPage, textColor, ops,
                         currentY>>
  /\ UNCHANGED <<resume, calls, expIdx, hlIdx, groupIdx, footIdx, result, error>>

\* edu.institution || "Institution"
institutionText(edu) == OrElse(edu.institution, "Institution")

\* The degree line: the degree, " in " and the field when there is one
degreeText(edu) ==
  IF edu.degree # ""
  THEN edu.degree \o (IF edu.field # "" THEN " in " \o edu.field ELSE "")
  ELSE ""

\* The instructions of one education entry whose cursor is y: institution,
\* degree line, date range, location, description
EducationEntryOps(edu, y, st, page) ==
  <<Op("institution", institutionText(edu), margin, y, 1, 0, page, Black,
       "bold", 12)>>
  \o (IF degreeText(edu) # ""
      THEN <<Op("degree", degreeText(edu), margin, y + 5, 1, 0, page, Black,
                "normal", 11)>>
      ELSE <<>>)
  \o (IF dateText(edu) # ""
      THEN <<Op("eduDate", dateText(edu),
                pageWidth - margin - getTextWidth(dateText(edu)), y, 1, 0,
                page, Black,
                IF degreeText(edu) # "" THEN "normal" ELSE "bold",
                IF degreeText(edu) # "" THEN 11 ELSE 12)>>
      ELSE <<>>)
  \o (IF edu.location # ""
      THEN <<Op("eduLocation", edu.location, margin, y + 10, 1, 0, page, Black,
                "italic", 10)>>
      ELSE <<>>)
  \o (IF edu.description # 0
      THEN <<WrapAt(Op("eduDescription", "", margin,
                IF edu.location # "" THEN y + 15 ELSE y + 10,
                splitTextToSize(edu.description, pageWidth - 2 * margin),
                st.lineSpacing, page, Black, "normal", 10), pageWidth - 2 * margin)>>
      ELSE <<>>)

\* One education entry: a page check, its lines, the section spacing
EducationEntry ==
  /\ UNCHANGED otherVars
  /\ pc = "eduEntry"
  /\ LET edu == content.education[eduIdx]
         r == checkAndAddPage(numPages, currentY)
         page == PageAfter(r, curPage)
     IN  /\ checks' = Append(checks, Check(currentY, r, numPages, Len(ops)))
         /\ numPages' = r.pages
         /\ curPage' = page
         /\ ops' = ops \o EducationEntryOps(edu, r.y, style, page)
         /\ currentY' = EntryAdvance(edu, r.y, style) + style.sectionSpacing
  /\ textColor' = Black
  /\ IF eduIdx < Len(content.education)
     THEN pc' = "eduEntry" /\ eduIdx' = eduIdx + 1
     ELSE pc' = "skills" /\ UNCHANGED eduIdx
  /\ UNCHANGED <<resume, calls, expIdx, hlIdx, groupIdx, footIdx, result, error>>

\* A mutated reduce that starts a new group whenever the category changes
\* from one skill to the next, so that the skills keep their list order.
AddSkillInRuns(acc, skill) ==
  LET category == OrElse(skill.category, "Other")
  IN  IF acc # <<>> /\ acc[Len(acc)].category = category
      THEN [acc EXCEPT ![Len(acc)].skills = Append(@, skill.name)]
      ELSE Append(acc, [category |-> category, skills |-> <<skill.name>>])

\* acc[category].push(skill.name), the category "Other" when there is none;
\* a category seen for the first time becomes the last property of acc
AddSkill(acc, skill) ==
  LET category == OrElse(skill.category, "Other")
  IN  IF \E i \in 1..Len(acc) : acc[i].category = category
      THEN [i \in 1..Len(acc) |->
              IF acc[i].category = category
              THEN [acc[i] EXCEPT !.skills = Append(@, skill.name)]
              ELSE acc[i]]
      ELSE Append(acc, [category |-> category, skills |-> <<skill.name>>])

\* content.skills.reduce(...): the categories in the order they first
\* appear, each with its skills in list order; acc is the object the reduce
\* has built from the skills before the last one
RECURSIVE skillsByCategory(_)
skillsByCategory(skills) ==
  IF skills = <<>> THEN <<>>
  ELSE CHOOSE next \in
         {AddSkill(acc, skills[Len(skills)]) :
            acc \in {skillsByCategory(SubSeq(skills, 1, Len(skills) - 1))}} :
         TRUE

\* The array index a property name denotes, -1 when it denotes none (the
\* categories of the inputs that are written as integers)
IndexOf(category) ==
  CASE category = "7" -> 7
    [] category = "10" -> 10
    [] OTHER -> -1

\* Object.entries(skillsByCategory): the properties whose names are array
\* indices come first, in ascending numeric order, then the other
\* properties in the order they were created
ObjectEntries(groups) ==
  SortSeq(SelectSeq(groups, LAMBDA g : IndexOf(g.category) >= 0),
          LAMBDA a, b : IndexOf(a.category) < IndexOf(b.category))
  \o SelectSeq(groups, LAMBDA g : IndexOf(g.category) < 0)

\* skills.join(" * ")
RECURSIVE Join(_)
Join(names) ==
  IF names = <<>> THEN ""
  ELSE IF Len(names) = 1 THEN names[1]
  ELSE names[1] \o " * " \o Join(Tail(names))

\* A mutated skills section that leaves the text color of the section title
\* in force for the skills.
SkillsSectionKeepColor ==
  /\ UNCHANGED otherVars
  /\ pc = "skills"
  /\ IF hasSkills(content)
     THEN LET r == checkAndAddPage(numPages, currentY)
              page == PageAfter(r, curPage)
          IN  /\ pc' = "skillGroup"
              /\ groupIdx' = 1
              /\ footIdx' = footIdx
              /\ checks' = Append(checks, Check(currentY, r, numPages, Len(ops)))
              /\ numPages' = r.pages
              /\ curPage' = page
              /\ textColor' = style.headerColor
              /\ ops' = Append(ops, addSectionTitle("Skills", r.y, style, page))
              /\ currentY' = addSectionTitleY(r.y)
     ELSE /\ pc' = "pageNumbers"
          /\ footIdx' = 1
          /\ UNCHANGED <<groupIdx, checks, numPages, curPage, textColor, ops,
                         currentY>>
  /\ UNCHANGED <<resume, calls, expIdx, hlIdx, eduIdx, result, error>>

\* Skills section: skipped when the list is empty; else a page check and
\* the section title
SkillsSection ==
  /\ UNCHANGED otherVars
  /\ pc = "skills"
  /\ IF hasSkills(content)
     THEN LET r == checkAndAddPage(numPages, currentY)
              page == PageAfter(r, curPage)
          IN  /\ pc' = "skillGroup"
              /\ groupIdx' = 1
              /\ footIdx' = footIdx
              /\ checks' = Append(checks, Check(currentY, r, numPages, Len(ops)))
              /\ numPages' = r.pages
              /\ curPage' = page
              /\ textColor' = Black
              /\ ops' = Append(ops, addSectionTitle("Skills", r.y, style, page))
              /\ currentY' = addSectionTitleY(r.y)
     ELSE /\ pc' = "pageNumbers"
          /\ footIdx' = 1
          /\ UNCHANGED <<groupIdx, checks, numPages, curPage, textColor, ops,
                         currentY>>
  /\ UNCHANGED <<resume, calls, expIdx, hlIdx, eduIdx, result, error>>

\* One category of skills: a page check, the category name unless it is
\* "Other", the joined skills wrapped to the content width
SkillsGroup ==
  /\ UNCHANGED otherVars
  /\ pc = "skillGroup"
  /\ LET groups == ObjectEntries(skillsByCategory(content.skills))
         g == groups[groupIdx]
         r == checkAndAddPage(numPages, currentY)
         page == PageAfter(r, curPage)
         y1 == IF g.category # "Other" THEN r.y + 5 ELSE r.y
         skillsText == Join(g.skills)
         skillsLines == splitTextToSize(getTextWidth(skillsText),
                                        pageWidth - 2 * margin)
     IN  /\ checks' = Append(checks, Check(currentY, r, numPages, Len(ops)))
         /\ numPages' = r.pages
         /\ curPage' = page
         /\ ops' = ops
              \o (IF g.category # "Other"
                  THEN <<Op("category", g.category, margin, r.y, 1, 0, page,
                            textColor, "bold", 11)>>
                  ELSE <<>>)
              \o <<WrapAt(Op("skills", skillsText, margin, y1, skillsLines,
                      style.lineSpacing, page, textColor, "normal", 10), pageWidth - 2 * margin)>>
         /\ currentY' = y1 + skillsLines * style.lineSpacing
                          + style.sectionSpacing
         /\ IF groupIdx < Len(groups)
            THEN pc' = "skillGroup" /\ groupIdx' = groupIdx + 1
                 /\ UNCHANGED footIdx
            ELSE pc' = "pageNumbers" /\ footIdx' = 1 /\ UNCHANGED groupIdx
  /\ UNCHANGED <<resume, calls, textColor, expIdx, hlIdx, eduIdx, result, error>>

\* A mutated page count that forgets the empty first slot of doc.internal.pages.
pageCountWithSlot == numPages + 1

\* doc.internal.pages.length - 1
pageCount == numPages

\* `Page ${i} of ${pageCount}`
FooterText(i, n) == "Page " \o ToString(i) \o " of " \o ToString(n)

\* Add page numbers: one iteration of the loop over the pages
PageNumber ==
  /\ UNCHANGED otherVars
  /\ pc = "pageNumbers"
  /\ footIdx <= pageCount
  /\ curPage' = footIdx
  /\ textColor' = Grey
  /\ ops' = Append(ops, Op("footer", FooterText(footIdx, pageCount),
                           pageWidth - margin - 20, pageHeight - margin, 1, 0,
                           footIdx, Grey, "normal", 8))
  /\ footIdx' = footIdx + 1
  /\ UNCHANGED <<resume, pc, calls, currentY, numPages, checks, expIdx, hlIdx,
                 eduIdx, groupIdx, result, error>>

\* A mutated return that records the download from inside the generator,
\* before the document is encoded.
OutputRecording ==
  /\ pc = "pageNumbers"
  /\ footIdx > pageCount
  /\ pc' = "done"
  /\ result' = [returned |-> TRUE, document |-> ops]
  /\ posted' = IF flow = "downloadMutation" THEN "sent" ELSE posted
  /\ UNCHANGED <<resume, calls, currentY, numPages, curPage, textColor, ops,
                 checks, expIdx, hlIdx, eduIdx, groupIdx, footIdx, error>>
  /\ UNCHANGED <<history, flow, downloads, toast, aiVars, storeVars, sideVars>>

\* return doc.output("datauristring")
Output ==
  /\ UNCHANGED otherVars
  /\ pc = "pageNumbers"
  /\ footIdx > pageCount
  /\ pc' = "done"
  /\ result' = [returned |-> TRUE, document |-> ops]
  /\ UNCHANGED <<resume, calls, currentY, numPages, curPage, textColor, ops,
                 checks, expIdx, hlIdx, eduIdx, groupIdx, footIdx, error>>

\* A mutated handler that hands the pages drawn so far to the caller.
CatchPartial(doc) ==
  [pc |-> "failed", error |-> FailureMessage,
   result |-> [returned |-> TRUE, document |-> doc]]

\* catch (error): the call throws the one error and returns nothing
Catch(doc) ==
  [pc |-> "failed", error |-> FailureMessage,
   result |-> [returned |-> FALSE, document |-> <<>>]]

\* Any step inside the try block throws (the document's construction, a
\* text measurement, a draw, the encoding)
Throw ==
  /\ UNCHANGED otherVars
  /\ pc \notin {"done", "failed"}
  /\ LET c == Catch(ops)
     IN  /\ pc' = c.pc
         /\ error' = c.error
         /\ result' = c.result
  /\ UNCHANGED <<resume, calls, currentY, numPages, curPage, textColor, ops,
                 checks, expIdx, hlIdx, eduIdx, groupIdx, footIdx>>

Next ==
  \/ Create
  \/ Header
  \/ Contact
  \/ Divider
  \/ Summary
  \/ ExperienceSection
  \/ ExperienceEntry
  \/ Bullet
  \/ ExperienceEntryEnd
  \/ EducationSection
  \/ EducationEntry
  \/ SkillsSection
  \/ SkillsGroup
  \/ PageNumber
  \/ Output
  \/ Throw

Spec == Init /\ [][Next]_vars

\* ------------------------------------------------------- repeated calls
\* A long resume with every section and a short one, under templates with
\* equal and with different style records.
FullResume(t) ==
  Resume(t, [BaseInfo EXCEPT !.summary = ShortText],
         <<[BaseExp EXCEPT !.description = LongText]>>, <<BaseEdu>>,
         <<[BaseSkill EXCEPT !.category = "Tools"]>>)

AgainResumes ==
  {FullResume(t) : t \in {"modern", "classic", "simple"}}
  \cup {Resume("modern", BaseInfo, <<>>, <<>>, <<>>)}

\* What a completed call handed to its caller
Outcome == [resume |-> resume, returned |-> result.returned,
            document |-> result.document]

\* The exported function is called again, with any resume, after a call has
\* returned or thrown; what the earlier call left behind stays where it was.
CallAgain ==
  /\ pc \in {"done", "failed"}
  /\ Len(history) + 1 < MaxCalls
  /\ history' = Append(history, Outcome)
  /\ \E r \in AgainResumes : resume' = r
  /\ pc' = "start"
  /\ result' = [returned |-> FALSE, document |-> <<>>]
  /\ error' = ""
  /\ UNCHANGED <<calls, currentY, numPages, curPage, textColor, ops, checks,
                 expIdx, hlIdx, eduIdx, groupIdx, footIdx>>
  /\ UNCHANGED <<downloadVars, aiVars, storeVars, sideVars>>

InitCalls ==
  /\ LayoutInit(AgainResumes)
  /\ history = <<>>
  /\ DownloadIdle
  /\ AIIdle
  /\ StoreIdle
  /\ IdIdle
  /\ AuthIdle
  /\ SessionIdle
  /\ WizardMounted

NextCalls == Next \/ CallAgain

SpecCalls == InitCalls /\ [][NextCalls]_vars

\* ------------------------------------------------------------ properties
SummaryEmpty == content.personalInfo.summary = 0
ExperienceEmpty == content.experience = <<>>
EducationEmpty == content.education = <<>>
SkillsEmpty == content.skills = <<>>

OpsOfKind(k) == SelectSeq(ops, LAMBDA o : o.kind = k)

HasKind(k) == \E i \in 1..Len(ops) : ops[i].kind = k

\* The baseline of the last line of a drawn block, its lines lineSpacing
\* apart as the cursor accounts for them
LastBaseline(o) == o.y + (o.lines - 1) * o.spacing

\* C1: no block is ever drawn extending below pageHeight - margin: a block
\* that does not fit in the space left on the page is preceded by a page
\* break.
C1_NeverClips ==
  \A i \in 1..Len(ops) : LastBaseline(ops[i]) <= pageHeight - margin

\* C2: when the call finishes with N pages, every page i carries exactly one
\* footer "Page i of N" with the final N, and footers are written only once
\* the layout can add no more pages: they follow every content block.
C2_PageNumbering ==
  /\ \A i \in 1..Len(ops) :
       ops[i].kind = "footer" =>
         /\ pc \in {"pageNumbers", "done", "failed"}
         /\ ops[i].text = "Page " \o ToString(ops[i].page) \o " of "
                            \o ToString(numPages)
         /\ ops[i].page \in 1..numPages
         /\ \A j \in i..Len(ops) : ops[j].kind = "footer"
         /\ \A j \in 1..Len(ops) :
              (ops[j].kind = "footer" /\ ops[j].page = ops[i].page) => j = i
  /\ pc = "done" =>
       \A n \in 1..numPages :
         \E i \in 1..Len(ops) : ops[i].kind = "footer" /\ ops[i].page = n

C2_Witness == pc = "done" /\ numPages >= 2

\* The place of an instruction in the render order of the sections
SectionRank(o) ==
  CASE o.kind = "name" -> 1
    [] o.kind = "title" -> 2
    [] o.kind = "contact" -> 3
    [] o.kind = "divider" -> 4
    [] o.kind = "sectionTitle" /\ o.text = "Summary" -> 5
    [] o.kind = "summary" -> 6
    [] o.kind = "sectionTitle" /\ o.text = "Experience" -> 7
    [] o.kind \in {"expTitle", "company", "date", "location", "description",
                   "bullet"} -> 8
    [] o.kind = "sectionTitle" /\ o.text = "Education" -> 9
    [] o.kind \in {"institution", "degree", "eduDate", "eduLocation",
                   "eduDescription"} -> 10
    [] o.kind = "sectionTitle" /\ o.text = "Skills" -> 11
    [] o.kind \in {"category", "skills"} -> 12
    [] o.kind = "footer" -> 13

\* The place of an instruction inside its experience entry
EntryRank(o) ==
  CASE o.kind = "expTitle" -> 1
    [] o.kind = "company" -> 2
    [] o.kind = "date" -> 3
    [] o.kind = "location" -> 4
    [] o.kind = "description" -> 5
    [] o.kind = "bullet" -> 6

\* C3: instructions are emitted in strict render order: header, contact
\* line, divider, summary, experience, education, skills; inside an
\* experience entry: title/company, date range, location, description,
\* bullets.
C3_RenderOrder ==
  \A i \in 1..(Len(ops) - 1) :
    /\ SectionRank(ops[i]) <= SectionRank(ops[i + 1])
    /\ SectionRank(ops[i]) \in 1..4 =>
         SectionRank(ops[i]) < SectionRank(ops[i + 1])
         \/ (ops[i].kind = "contact" /\ ops[i + 1].kind = "contact")
    /\ (SectionRank(ops[i]) = 8 /\ SectionRank(ops[i + 1]) = 8
        /\ ops[i + 1].kind # "expTitle") =>
         \/ EntryRank(ops[i]) < EntryRank(ops[i + 1])
         \/ (ops[i].kind = "bullet" /\ ops[i + 1].kind = "bullet")

C3_Witness ==
  /\ pc = "done"
  /\ \A k \in {"contact", "summary", "date", "location", "description",
               "bullet", "institution", "skills"} : HasKind(k)
  /\ Len(OpsOfKind("expTitle")) >= 2

AllSectionsEmpty ==
  /\ SummaryEmpty
  /\ ExperienceEmpty
  /\ EducationEmpty
  /\ SkillsEmpty

AnyContactField ==
  \/ content.personalInfo.email # ""
  \/ content.personalInfo.phone # ""
  \/ content.personalInfo.location # ""
  \/ content.personalInfo.website # ""

\* C4 as stated: with every section empty the one page holds only the
\* header and the contact line.
C4_OnlyHeaderAndContact ==
  (AllSectionsEmpty /\ pc = "done") =>
    /\ numPages = 1
    /\ \A i \in 1..Len(ops) : ops[i].kind \in {"name", "title", "contact"}

\* C4 amended: with every section empty no page break is ever emitted, and
\* the one page holds the header, the contact line exactly when a contact
\* field is present, the divider rule and the footer "Page 1 of 1", and no
\* section.
C4_EmptySectionsOnePage ==
  AllSectionsEmpty =>
    /\ numPages <= 1
    /\ checks = <<>>
    /\ \A i \in 1..Len(ops) :
         ops[i].kind \in {"name", "title", "contact", "divider", "footer"}
    /\ Len(ops) >= 3 => (HasKind("contact") <=> AnyContactField)
    /\ pc = "done" =>
         /\ numPages = 1
         /\ Len(OpsOfKind("name")) = 1
         /\ Len(OpsOfKind("title")) = 1
         /\ Len(OpsOfKind("divider")) = 1
         /\ OpsOfKind("footer") # <<>>
         /\ OpsOfKind("footer")[1].text = "Page 1 of 1"

C4_Witness == AllSectionsEmpty /\ pc = "done" /\ HasKind("contact")

\* C5: an empty or absent section is skipped entirely: the step of the
\* section draws nothing, makes no page check and leaves the cursor and the
\* page count as they were; the document never holds its title or text.
C5_EmptySectionSkipped ==
  /\ [][( \/ (pc = "summary" /\ SummaryEmpty)
          \/ (pc = "experience" /\ ExperienceEmpty)
          \/ (pc = "education" /\ EducationEmpty)
          \/ (pc = "skills" /\ SkillsEmpty) )
        => UNCHANGED <<ops, checks, currentY, numPages, curPage, textColor>>]_vars
  /\ [](/\ SummaryEmpty =>
            \A i \in 1..Len(ops) : SectionRank(ops[i]) \notin {5, 6}
        /\ ExperienceEmpty =>
            \A i \in 1..Len(ops) : SectionRank(ops[i]) \notin {7, 8}
        /\ EducationEmpty =>
            \A i \in 1..Len(ops) : SectionRank(ops[i]) \notin {9, 10}
        /\ SkillsEmpty =>
            \A i \in 1..Len(ops) : SectionRank(ops[i]) \notin {11, 12})

C5_Witness ==
  /\ pc = "done"
  /\ SummaryEmpty
  /\ ~ExperienceEmpty
  /\ EducationEmpty
  /\ ~SkillsEmpty
  /\ numPages >= 2

\* C6: in the experience and education sections a page break occurs only
\* immediately before a section title, an entry's title line or a bullet,
\* never between an entry's title line and its date, location or
\* description.
C6_BreakOnlyBeforeBlock ==
  /\ \A k \in 1..Len(checks) :
       (checks[k].broke /\ checks[k].at < Len(ops)
        /\ SectionRank(ops[checks[k].at + 1]) \in 7..10) =>
         ops[checks[k].at + 1].kind \in
           {"sectionTitle", "expTitle", "institution", "bullet"}
  /\ \A i \in 1..(Len(ops) - 1) :
       (ops[i + 1].page # ops[i].page /\ SectionRank(ops[i + 1]) \in 7..10) =>
         /\ ops[i + 1].kind \in
              {"sectionTitle", "expTitle", "institution", "bullet"}
         /\ \E k \in 1..Len(checks) : checks[k].broke /\ checks[k].at = i

C6_Witness ==
  /\ pc = "done"
  /\ \E k \in 1..Len(checks) :
       /\ checks[k].broke
       /\ checks[k].at >= 1
       /\ ops[checks[k].at].kind = "description"
       /\ ops[checks[k].at + 1].kind = "expTitle"
  /\ \E k \in 1..Len(checks) :
       checks[k].broke /\ ops[checks[k].at + 1].kind = "bullet"

\* The wrapped height of the experience list: the lines of every
\* description and bullet, each lineSpacing high
RECURSIVE SumLines(_, _)
SumLines(widths, maxWidth) ==
  IF widths = <<>> THEN 0
  ELSE splitTextToSize(widths[1], maxWidth) + SumLines(Tail(widths), maxWidth)

RECURSIVE ExperienceLines(_)
ExperienceLines(experience) ==
  IF experience = <<>> THEN 0
  ELSE (IF experience[1].description # 0
        THEN splitTextToSize(experience[1].description, contentWidth)
        ELSE 0)
       + SumLines(experience[1].highlights, contentWidth - 2)
       + ExperienceLines(Tail(experience))

\* C7: an experience list whose combined wrapped height exceeds one page
\* makes the output at least two pages long.
C7_LongExperienceBreaks ==
  (pc = "done"
   /\ content.experience # <<>>
   /\ ExperienceLines(content.experience) * style.lineSpacing > pageHeight) =>
    numPages >= 2

\* C8 as stated: a page break advances the page by one and resets the
\* cursor to the top margin; without a break the cursor is unchanged.
C8_BreakResetsToMargin ==
  \A k \in 1..Len(checks) :
    IF checks[k].pagesAfter # checks[k].pagesBefore
    THEN checks[k].pagesAfter = checks[k].pagesBefore + 1
         /\ checks[k].yOut = margin
    ELSE checks[k].yOut = checks[k].yIn

\* C8 amended: a page break advances the page by one and resets the cursor
\* to margin + 10 = 25 mm, the baseline of the first line of the first
\* page; without a break the cursor is unchanged.
C8_BreakResetsBelowMargin ==
  /\ \A k \in 1..Len(checks) :
       IF checks[k].pagesAfter # checks[k].pagesBefore
       THEN /\ checks[k].pagesAfter = checks[k].pagesBefore + 1
            /\ checks[k].yOut = 25
            /\ checks[k].at < Len(ops) =>
                 /\ ops[checks[k].at + 1].page = checks[k].pagesAfter
                 /\ ops[checks[k].at + 1].y = 25
       ELSE checks[k].yOut = checks[k].yIn
  /\ numPages = 1 + Cardinality({k \in 1..Len(checks) :
                                   checks[k].pagesAfter # checks[k].pagesBefore})
     \/ calls = 0

C8_Witness ==
  \E k \in 1..Len(checks) :
    checks[k].pagesAfter = checks[k].pagesBefore + 1 /\ checks[k].at < Len(ops)

\* The layout steps, without the failure
LayoutStep ==
  \/ Create \/ Header \/ Contact \/ Divider \/ Summary \/ ExperienceSection
  \/ ExperienceEntry \/ Bullet \/ ExperienceEntryEnd \/ EducationSection
  \/ EducationEntry \/ SkillsSection \/ SkillsGroup \/ PageNumber \/ Output

Placeholder(s, label) == IF s = "" THEN label ELSE s

\* C9: a missing full name, professional title, experience title or
\* company, or education institution never stops the layout, and its line
\* is drawn with the placeholder label.
C9_Placeholders ==
  /\ pc \notin {"done", "failed"} => ENABLED LayoutStep
  /\ pc = "done" => result.returned /\ error = ""
  /\ \A i \in 1..Len(OpsOfKind("name")) :
       OpsOfKind("name")[i].text =
         Placeholder(content.personalInfo.fullName, "Full Name")
  /\ \A i \in 1..Len(OpsOfKind("title")) :
       OpsOfKind("title")[i].text =
         Placeholder(content.personalInfo.professionalTitle,
                     "Professional Title")
  /\ Len(OpsOfKind("expTitle")) <= Len(content.experience)
  /\ Len(OpsOfKind("company")) = Len(OpsOfKind("expTitle"))
  /\ \A i \in 1..Len(OpsOfKind("expTitle")) :
       /\ OpsOfKind("expTitle")[i].text =
            Placeholder(content.experience[i].title, "Position")
       /\ OpsOfKind("company")[i].text =
            Placeholder(content.experience[i].company, "Company")
  /\ Len(OpsOfKind("institution")) <= Len(content.education)
  /\ \A i \in 1..Len(OpsOfKind("institution")) :
       OpsOfKind("institution")[i].text =
         Placeholder(content.education[i].institution, "Institution")
  /\ pc = "done" =>
       /\ Len(OpsOfKind("name")) = 1
       /\ Len(OpsOfKind("title")) = 1
       /\ Len(OpsOfKind("expTitle")) = Len(content.experience)
       /\ Len(OpsOfKind("institution")) = Len(content.education)

C9_Witness ==
  /\ pc = "done"
  /\ content.personalInfo.fullName = ""
  /\ content.personalInfo.professionalTitle = ""
  /\ content.experience # <<>>
  /\ content.experience[1].title = ""
  /\ content.experience[1].company = ""
  /\ content.education # <<>>
  /\ content.education[1].institution = ""
  /\ HasKind("institution")

\* C10: a failure at any point ends the call in the single error "Failed to
\* generate PDF. Please try again.", returns no document, partial or
\* complete, and the layout is not run again.
C10_FailsAtomically ==
  /\ [](/\ calls <= 1
        /\ pc = "failed" =>
             /\ error = "Failed to generate PDF. Please try again."
             /\ ~result.returned
             /\ result.document = <<>>
        /\ pc # "failed" => error = ""
        /\ result.returned => pc = "done")
  /\ [][pc = "failed" => pc' = "failed"]_vars

C10_Witness ==
  /\ pc = "failed"
  /\ numPages >= 2
  /\ HasKind("bullet")
  /\ ~HasKind("footer")

\* ------------------------------------------------------------ download
\* The two handlers that call generateResumePDF: downloadMutation records
\* the download on the server, handleDownload saves the file and records
\* nothing.
DownloadFlows == {"downloadMutation", "handleDownload"}

\* The answers of POST /api/resumes/:id/download
DownloadAnswers == {"recorded", "notFound", "forbidden", "error"}

\* await apiRequest("POST", `/api/resumes/${id}/download`), the statement
\* after await generateResumePDF(resumeData)
PostDownload ==
  /\ flow = "downloadMutation"
  /\ pc = "done"
  /\ posted = "no"
  /\ posted' = "sent"
  /\ UNCHANGED <<layoutVars, history, flow, downloads, toast, aiVars, storeVars, sideVars>>

\* app.post("/api/resumes/:id/download"): 404 without the resume, 403 for
\* another user's resume, else storage.incrementDownloads and 200; 500 when
\* the storage throws
RecordDownload ==
  /\ posted = "sent"
  /\ \E answer \in DownloadAnswers :
       /\ posted' = answer
       /\ downloads' = IF answer = "recorded" THEN downloads + 1
                       ELSE downloads
  /\ UNCHANGED <<layoutVars, history, flow, toast, aiVars, storeVars, sideVars>>

\* onSuccess and onError of downloadMutation once the request has settled
DownloadSettled ==
  /\ flow = "downloadMutation"
  /\ posted \in DownloadAnswers
  /\ toast = ""
  /\ toast' \in (IF posted = "recorded" THEN {"success"}
                 ELSE {"success", "error"})
  /\ UNCHANGED <<layoutVars, history, flow, posted, downloads, aiVars, storeVars, sideVars>>

\* handleDownload after generateResumePDF returned: the link is clicked
SaveFile ==
  /\ flow = "handleDownload"
  /\ pc = "done"
  /\ toast = ""
  /\ toast' = "success"
  /\ UNCHANGED <<layoutVars, history, flow, posted, downloads, aiVars, storeVars, sideVars>>

\* onError of downloadMutation and the catch of handleDownload when
\* generateResumePDF threw
DownloadFailed ==
  /\ flow \in DownloadFlows
  /\ pc = "failed"
  /\ toast = ""
  /\ toast' = "error"
  /\ UNCHANGED <<layoutVars, history, flow, posted, downloads, aiVars, storeVars, sideVars>>

\* A handler has fetched the resume and is about to call generateResumePDF
InitDownload ==
  /\ LayoutInit(AgainResumes)
  /\ history = <<>>
  /\ flow \in DownloadFlows
  /\ posted = "no"
  /\ downloads = 0
  /\ toast = ""
  /\ AIIdle
  /\ StoreIdle
  /\ IdIdle
  /\ AuthIdle
  /\ SessionIdle
  /\ WizardMounted

NextDownload ==
  \/ Next
  \/ PostDownload
  \/ RecordDownload
  \/ DownloadSettled
  \/ SaveFile
  \/ DownloadFailed

SpecDownload == InitDownload /\ [][NextDownload]_vars

\* ------------------------------------------------------- AI generations
Users == {"ann", "bob"}

\* /api/ai/summary, bullets, analyze, skills and cover-letter
Endpoints == {"summary", "bullets", "analyze", "skills", "cover-letter"}

\* if (!stats || stats.aiGenerationCount >= 3) return res.status(403)
GenerationLimit == 3
DEBOUNCE_TIME == 60
NumSteps == 6

\* The user has no document: getAIGenerationStats returns null
NoDoc == -1

\* The counters the users start with: no document, none used, one left
InitialCounts == {NoDoc, 0, GenerationLimit - 1}

Slots == 1..NumRequests

\* The ids of the resumes the collection starts with
ResumeIds == {1, 2}

\* The stored fields of a resume created by createResume for a user
NewResume(id, userId) ==
  [id |-> id, userId |-> userId, title |-> "Resume", createdAt |-> "created",
   lastEdited |-> "created", content |-> "draft", template |-> "modern",
   downloads |-> 0, atsScore |-> "null"]

\* Each user owns one resume
SeedResumes ==
  [id \in ResumeIds |-> NewResume(id, IF id = 1 THEN "ann" ELSE "bob")]

\* The other resume id and the other user
OtherId(id) == CHOOSE other \in ResumeIds : other # id
OtherUser(u) == CHOOSE other \in Users : other # u

NoBody == [none |-> TRUE]

\* The bodies a client sends with PUT /api/resumes/:id on resume id as
\* user u: the editable fields, or the fields the server manages
Bodies(id, u) ==
  { [title |-> "Edited", content |-> "edited", template |-> "classic"],
    [id |-> OtherId(id), userId |-> OtherUser(u), createdAt |-> "null",
     downloads |-> 0 - 1] }

ResumeRoutes == {"GET", "PUT", "DELETE", "download"}

NoRequest ==
  [user |-> "", pc |-> "idle", route |-> "", id |-> 0, body |-> NoBody,
   sent |-> NoBody, llm |-> "none"]

\* getAIGenerationStats: null without a document, else the stored counter
\* (a missing counter reads as 0)
getAIGenerationStats(u) == aiGenerationCount[u]

\* An authenticated user posts to one of the five endpoints; analyze may
\* carry a resumeId. The handler awaits getAIGenerationStats.
AIRequest ==
  /\ \E i \in Slots, u \in sessions, e \in Endpoints,
        bodyResumeId \in {0} \cup ResumeIds :
       /\ requests[i].pc = "idle"
       /\ bodyResumeId # 0 => e = "analyze"
       /\ requests' = [requests EXCEPT ![i] =
            [NoRequest EXCEPT !.user = u, !.pc = "reading", !.route = "ai",
                              !.id = bodyResumeId]]
  /\ UNCHANGED <<layoutVars, history, downloadVars, aiGenerationCount, served,
               storeVars, sideVars>>

\* A handler that counts the generation before it asks for it
AICheckLimitCounting ==
  /\ \E i \in Slots :
       /\ requests[i].pc = "reading"
       /\ LET u == requests[i].user
              stats == getAIGenerationStats(u)
              limited == stats = NoDoc \/ stats >= GenerationLimit
          IN  /\ requests' = [requests EXCEPT ![i] =
                   IF limited THEN [@ EXCEPT !.pc = "403"]
                   ELSE [@ EXCEPT !.pc = "generating", !.llm = "called"]]
              /\ aiGenerationCount' = [aiGenerationCount EXCEPT ![u] =
                   IF limited THEN @ ELSE @ + 1]
  /\ UNCHANGED <<layoutVars, history, downloadVars, served, storeVars, sideVars>>

\* The stats arrive: 403 without them or at the limit, else the handler
\* calls the LLM and awaits the generation
AICheckLimit ==
  /\ \E i \in Slots :
       /\ requests[i].pc = "reading"
       /\ LET stats == getAIGenerationStats(requests[i].user)
          IN  requests' = [requests EXCEPT ![i] =
                IF stats = NoDoc \/ stats >= GenerationLimit
                THEN [@ EXCEPT !.pc = "403"]
                ELSE [@ EXCEPT !.pc = "generating", !.llm = "called"]]
  /\ UNCHANGED <<layoutVars, history, downloadVars, aiGenerationCount, served,
               storeVars, sideVars>>

\* The generation arrives: analyze with a resumeId awaits
\* storage.updateAtsScore, every other request awaits
\* incrementAIGenerationCount
AIGenerate ==
  /\ \E i \in Slots :
       /\ requests[i].pc = "generating"
       /\ requests' = [requests EXCEPT ![i] =
            [@ EXCEPT !.pc = IF requests[i].id # 0 THEN "scoring"
                             ELSE "counting",
                      !.llm = "answered"]]
  /\ UNCHANGED <<layoutVars, history, downloadVars, aiGenerationCount, served,
               storeVars, sideVars>>

\* storage.updateAtsScore(resumeId, analysis.score): the document with
\* that id, when it exists, gets the score
AIUpdateAtsScore ==
  /\ \E i \in Slots :
       /\ requests[i].pc = "scoring"
       /\ resumeDocs' =
            IF requests[i].id \in DOMAIN resumeDocs
            THEN [resumeDocs EXCEPT ![requests[i].id].atsScore = "score"]
            ELSE resumeDocs
       /\ requests' = [requests EXCEPT ![i].pc = "counting"]
  /\ UNCHANGED <<layoutVars, history, downloadVars, aiGenerationCount, served,
               sessions, sideVars>>

\* incrementAIGenerationCount: FieldValue.increment(1) on the user's
\* document, then res.json(...) hands the generation to the user
incrementAIGenerationCount ==
  /\ \E i \in Slots :
       /\ requests[i].pc = "counting"
       /\ aiGenerationCount[requests[i].user] # NoDoc
       /\ aiGenerationCount' = [aiGenerationCount EXCEPT
            ![requests[i].user] = @ + 1]
       /\ served' = [served EXCEPT ![requests[i].user] = @ + 1]
       /\ requests' = [requests EXCEPT ![i].pc = "200"]
  /\ UNCHANGED <<layoutVars, history, downloadVars, storeVars, sideVars>>

\* catch (error): whatever the handler awaits throws, the answer is 500
AIThrow ==
  /\ \E i \in Slots :
       /\ requests[i].pc \in {"reading", "generating", "scoring", "counting"}
       /\ requests' = [requests EXCEPT ![i] =
            [@ EXCEPT !.pc = "500",
                      !.llm = IF requests[i].pc = "generating" THEN "failed"
                              ELSE @]]
  /\ UNCHANGED <<layoutVars, history, downloadVars, aiGenerationCount, served,
               storeVars, sideVars>>

\* ------------------------------------------------------- resume routes
\* The fields of doc overwritten by those of data (DocumentReference.update)
Updated(doc, data) ==
  [f \in DOMAIN doc \cup DOMAIN data |->
     IF f \in DOMAIN data THEN data[f] ELSE doc[f]]

\* The collection without document id
Without(docs, id) == [r \in DOMAIN docs \ {id} |-> docs[r]]

\* An authenticated user sends GET, PUT or DELETE /api/resumes/:id or
\* POST /api/resumes/:id/download; the handler awaits storage.getResume
ResumeRequest ==
  /\ \E i \in Slots, u \in sessions, route \in ResumeRoutes, id \in ResumeIds :
       /\ requests[i].pc = "idle"
       /\ \E body \in IF route = "PUT" THEN Bodies(id, u) ELSE {NoBody} :
            requests' = [requests EXCEPT ![i] =
              [NoRequest EXCEPT !.user = u, !.pc = "fetching", !.route = route,
                                !.id = id, !.body = body]]
  /\ UNCHANGED <<layoutVars, history, downloadVars, aiGenerationCount, served,
               storeVars, sideVars>>

\* getResume has answered: 404 without the resume, 403 for a resume of
\* another user; GET answers with the resume, the other routes await the
\* storage method
ResumeAuthorize ==
  /\ \E i \in Slots :
       /\ requests[i].pc = "fetching"
       /\ requests' = [requests EXCEPT ![i] =
            IF requests[i].id \notin DOMAIN resumeDocs
            THEN [@ EXCEPT !.pc = "404"]
            ELSE IF resumeDocs[requests[i].id].userId # requests[i].user
            THEN [@ EXCEPT !.pc = "403"]
            ELSE IF requests[i].route = "GET"
            THEN [@ EXCEPT !.pc = "200", !.sent = resumeDocs[requests[i].id]]
            ELSE [@ EXCEPT !.pc = "storing"]]
  /\ UNCHANGED <<layoutVars, history, downloadVars, aiGenerationCount, served,
               storeVars, sideVars>>

\* storage.updateResume(resumeId, req.body): the body's fields and
\* lastEdited are written to the document; the answer is the document read
\* back
updateResume ==
  /\ \E i \in Slots :
       /\ requests[i].pc = "storing"
       /\ requests[i].route = "PUT"
       /\ LET id == requests[i].id
              dataToUpdate ==
                Updated(requests[i].body, [lastEdited |-> "edited"])
          IN  IF id \in DOMAIN resumeDocs
              THEN /\ resumeDocs' = [resumeDocs EXCEPT
                        ![id] = Updated(@, dataToUpdate)]
                   /\ requests' = [requests EXCEPT ![i] =
                        [@ EXCEPT !.pc = "200", !.sent = resumeDocs'[id]]]
              ELSE /\ requests' = [requests EXCEPT ![i].pc = "200"]
                   /\ UNCHANGED resumeDocs
  /\ UNCHANGED <<layoutVars, history, downloadVars, aiGenerationCount, served,
               sessions, sideVars>>

\* storage.deleteResume(resumeId), then 204
deleteResume ==
  /\ \E i \in Slots :
       /\ requests[i].pc = "storing"
       /\ requests[i].route = "DELETE"
       /\ resumeDocs' = Without(resumeDocs, requests[i].id)
       /\ requests' = [requests EXCEPT ![i].pc = "204"]
  /\ UNCHANGED <<layoutVars, history, downloadVars, aiGenerationCount, served,
               sessions, sideVars>>

\* storage.incrementDownloads(resumeId): FieldValue.increment(1) on the
\* document when it exists, then 200
incrementDownloads ==
  /\ \E i \in Slots :
       /\ requests[i].pc = "storing"
       /\ requests[i].route = "download"
       /\ resumeDocs' =
            IF requests[i].id \in DOMAIN resumeDocs
            THEN [resumeDocs EXCEPT ![requests[i].id].downloads = @ + 1]
            ELSE resumeDocs
       /\ requests' = [requests EXCEPT ![i].pc = "200"]
  /\ UNCHANGED <<layoutVars, history, downloadVars, aiGenerationCount, served,
               sessions, sideVars>>

\* catch (error): storage.getResume or the storage method throws
ResumeThrow ==
  /\ \E i \in Slots :
       /\ requests[i].pc \in {"fetching", "storing"}
       /\ requests' = [requests EXCEPT ![i].pc = "500"]
  /\ UNCHANGED <<layoutVars, history, downloadVars, aiGenerationCount, served,
               storeVars, sideVars>>

\* ann is logged in and has generations left; ann and bob each own a resume
InitStore ==
  /\ LayoutInit({FullResume("modern")})
  /\ history = <<>>
  /\ DownloadIdle
  /\ aiGenerationCount = [u \in Users |-> 0]
  /\ requests = [i \in Slots |-> NoRequest]
  /\ served = [u \in Users |-> 0]
  /\ resumeDocs = SeedResumes
  /\ sessions = {"ann"}
  /\ IdIdle
  /\ AuthIdle
  /\ SessionIdle
  /\ WizardMounted

NextStore ==
  \/ ResumeRequest
  \/ ResumeAuthorize
  \/ updateResume
  \/ deleteResume
  \/ incrementDownloads
  \/ ResumeThrow
  \/ AIRequest
  \/ AICheckLimit
  \/ AIGenerate
  \/ AIUpdateAtsScore
  \/ incrementAIGenerationCount
  \/ AIThrow

SpecStore == InitStore /\ [][NextStore]_vars

\* The server is up; each user has used the generations the counter says
InitAI ==
  /\ LayoutInit({FullResume("modern")})
  /\ history = <<>>
  /\ DownloadIdle
  /\ aiGenerationCount \in [Users -> InitialCounts]
  /\ requests = [i \in Slots |-> NoRequest]
  /\ served = [u \in Users |->
       IF aiGenerationCount[u] = NoDoc THEN 0 ELSE aiGenerationCount[u]]
  /\ resumeDocs = SeedResumes
  /\ sessions = Users
  /\ IdIdle
  /\ AuthIdle
  /\ SessionIdle
  /\ WizardMounted

NextAI ==
  \/ AIRequest
  \/ AICheckLimit
  \/ AIGenerate
  \/ AIUpdateAtsScore
  \/ incrementAIGenerationCount
  \/ AIThrow

SpecAI == InitAI /\ [][NextAI]_vars

\* ---------------------------------------------------- wrapped text: claims
WrappedKinds == {"summary", "description", "bullet", "eduDescription", "skills"}

\* What the cursor moves beyond the lines of a wrapped block before the next
\* instruction: the section spacing after the summary and after a skills
\* line, 3 after a description (an education entry ends with its
\* description, so its section spacing follows at once), the bullet spacing
\* after a bullet
GapAfter(kind, st) ==
  CASE kind = "summary" -> st.sectionSpacing
    [] kind = "description" -> 3
    [] kind = "bullet" -> st.bulletSpacing
    [] kind = "eduDescription" -> 3 + st.sectionSpacing
    [] kind = "skills" -> st.sectionSpacing

\* C16: a step that draws a wrapped block of n lines at y leaves the cursor
\* at y + n * lineSpacing + gap, where lineSpacing is the template's and the
\* gap depends on the kind of block and the template only, never on n.
C16_WrappedAdvance ==
  [][Len(ops') > Len(ops) /\ ops'[Len(ops')].kind \in WrappedKinds
      => LET o == ops'[Len(ops')]
             st == StyleOf(resume.template)
         IN  currentY' = o.y + o.lines * st.lineSpacing + GapAfter(o.kind, st)]_vars

\* A description of many lines was drawn with a line spacing of 7 and the
\* cursor stands that many lines and the gap below it.
C16_Witness ==
  /\ pc = "expBullets"
  /\ hlIdx = 1
  /\ Len(ops) > 0
  /\ LET o == ops[Len(ops)]
     IN  /\ o.kind = "description"
         /\ o.lines = LongLines
         /\ StyleOf(resume.template).lineSpacing = 7
         /\ currentY = o.y + 7 * LongLines + 3

\* C17 as stated: every wrapped block (summary, descriptions, bullets, skills
\* lines) is wrapped to the one width pageWidth - 2 * margin.
C17_OneWrapWidth ==
  \A i \in 1..Len(ops) :
    ops[i].kind \in WrappedKinds => ops[i].wrap = pageWidth - 2 * margin

\* C17, amended: every wrapped block ends at the right margin. The summary,
\* the descriptions and the skills lines start at the left margin and are
\* wrapped to pageWidth - 2 * margin; a bullet starts 2 mm further right and
\* is wrapped to pageWidth - 2 * margin - 2.
C17_WrapToRightMargin ==
  \A i \in 1..Len(ops) :
    ops[i].kind \in WrappedKinds =>
      /\ ops[i].x + ops[i].wrap = pageWidth - margin
      /\ ops[i].x = (IF ops[i].kind = "bullet" THEN margin + 2 ELSE margin)

\* A description and a bullet of the same width were drawn: the description
\* fits one line of the content width, the bullet takes two lines.
C17_Witness ==
  \E i, j \in 1..Len(ops) :
    /\ ops[i].kind = "description"
    /\ ops[i].lines = 1
    /\ ops[i].wrap = 180
    /\ ops[j].kind = "bullet"
    /\ ops[j].lines = 2
    /\ ops[j].wrap = 178
    /\ content.experience[1].description = contentWidth
    /\ content.experience[1].highlights[1] + getTextWidth("* ") = contentWidth

\* ---------------------------------------------------------- colors: claims
\* The text blocks of the sections and of the contact line
BodyKinds ==
  {"contact", "summary", "expTitle", "company", "date", "location",
   "description", "bullet", "institution", "degree", "eduDate",
   "eduLocation", "eduDescription", "category", "skills"}

\* C18: every section title is drawn in the template's header color and
\* every body text block in black, whichever sections are present and
\* wherever the page breaks fall.
C18_Colors ==
  \A i \in 1..Len(ops) :
    /\ ops[i].kind = "sectionTitle"
         => ops[i].color = StyleOf(resume.template).headerColor
    /\ ops[i].kind \in BodyKinds => ops[i].color = "0,0,0"

\* After a page break, a section title in a header color that is not black
\* is followed by skills in black.
C18_Witness ==
  /\ numPages > 1
  /\ \E i \in 1..Len(ops) :
       /\ i < Len(ops)
       /\ ops[i].kind = "sectionTitle"
       /\ ops[i].text = "Skills"
       /\ ops[i].page > 1
       /\ ops[i].color = "#3b82f6"
       /\ ops[i + 1].kind \in {"category", "skills"}
       /\ ops[i + 1].color = "0,0,0"

\* ------------------------------------------------------ list order: claims
\* The experience entries drawn so far are the first entries of the list, in
\* list order, and all of them once the section is over.
ExperienceInListOrder ==
  LET drawn == OpsOfKind("expTitle")
  IN  /\ Len(drawn) <= Len(content.experience)
      /\ \A i \in 1..Len(drawn) :
           drawn[i].text = OrElse(content.experience[i].title, "Position")
      /\ pc \in {"education", "eduEntry", "skills", "skillGroup",
                 "pageNumbers", "done"}
           => Len(drawn) = Len(content.experience)

\* The same for the education entries.
EducationInListOrder ==
  LET drawn == OpsOfKind("institution")
  IN  /\ Len(drawn) <= Len(content.education)
      /\ \A i \in 1..Len(drawn) :
           drawn[i].text
             = OrElse(content.education[i].institution, "Institution")
      /\ pc \in {"skills", "skillGroup", "pageNumbers", "done"}
           => Len(drawn) = Len(content.education)

CategoryOf(skill) == OrElse(skill.category, "Other")

\* The names of the skills of one category, in list order
NamesIn(category) ==
  LET sel == SelectSeq(content.skills, LAMBDA k : CategoryOf(k) = category)
  IN  [i \in 1..Len(sel) |-> sel[i].name]

\* The skills lines drawn so far, each with the category drawn above it
\* ("Other" has no line of its own)
DrawnGroups ==
  LET at == SelectSeq([i \in 1..Len(ops) |-> i],
                      LAMBDA i : ops[i].kind = "skills")
  IN  [k \in 1..Len(at) |->
         [category |-> IF ops[at[k] - 1].kind = "category"
                       THEN ops[at[k] - 1].text ELSE "Other",
          text |-> ops[at[k]].text]]

\* Where a category first appears in the list
FirstAt(category) ==
  CHOOSE i \in 1..Len(content.skills) :
    /\ CategoryOf(content.skills[i]) = category
    /\ \A j \in 1..(i - 1) : CategoryOf(content.skills[j]) # category

\* The order of the groups: categories written as integers first, by value,
\* then the others by first appearance
GroupBefore(a, b) ==
  IF IndexOf(a) >= 0 /\ IndexOf(b) >= 0 THEN IndexOf(a) < IndexOf(b)
  ELSE IF IndexOf(a) >= 0 THEN TRUE
  ELSE IF IndexOf(b) >= 0 THEN FALSE
  ELSE FirstAt(a) < FirstAt(b)

PositionsOf(k) ==
  SelectSeq([i \in 1..Len(ops) |-> i], LAMBDA i : ops[i].kind = k)

\* The date range of entry e is the instruction at position at, on the line
\* of the entry's first instruction first
DateDrawn(e, first, at, kind) ==
  /\ at <= Len(ops)
  /\ ops[at].kind = kind
  /\ ops[at].text =
       (IF e.current THEN e.startDate \o " - Present"
        ELSE IF e.endDate # "" THEN e.startDate \o " - " \o e.endDate
        ELSE e.startDate)
  /\ ops[at].x + getTextWidth(ops[at].text) = pageWidth - margin
  /\ ops[at].y = ops[first].y
  /\ ops[at].page = ops[first].page

\* C20: an entry without a startDate has no date range drawn, whatever its
\* endDate and current say; an entry with one has "startDate - Present"
\* when current, else "startDate - endDate" when it has an endDate, else
\* the startDate alone, drawn on the entry's title line so that it ends at
\* pageWidth - margin. This holds for experience and education entries.
C20_DateRange ==
  /\ LET titles == PositionsOf("expTitle")
     IN  \A k \in 1..Len(titles) :
           LET e == content.experience[k]
               at == titles[k] + 2
           IN  IF e.startDate = ""
               THEN at <= Len(ops) => ops[at].kind # "date"
               ELSE DateDrawn(e, titles[k], at, "date")
  /\ LET firsts == PositionsOf("institution")
     IN  \A k \in 1..Len(firsts) :
           LET e == content.education[k]
               at == IF e.degree # "" THEN firsts[k] + 2 ELSE firsts[k] + 1
           IN  IF e.startDate = ""
               THEN at <= Len(ops) => ops[at].kind # "eduDate"
               ELSE DateDrawn(e, firsts[k], at, "eduDate")

\* An experience entry that is current and has an endDate but no startDate
\* was drawn without a date range.
C20_Witness ==
  /\ pc = "done"
  /\ Len(content.experience) = 1
  /\ content.experience[1].startDate = ""
  /\ content.experience[1].endDate # ""
  /\ content.experience[1].current
  /\ HasKind("expTitle")
  /\ ~HasKind("date")

\* --------------------------------------------------- contact line: claims
\* The contact fields that are present, in the order email, phone,
\* location, website, each with its icon
PresentContactFields ==
  LET info == content.personalInfo
  IN  (IF info.email # "" THEN <<"mail " \o info.email>> ELSE <<>>)
      \o (IF info.phone # "" THEN <<"phone " \o info.phone>> ELSE <<>>)
      \o (IF info.location # "" THEN <<"pin " \o info.location>> ELSE <<>>)
      \o (IF info.website # "" THEN <<"globe " \o info.website>> ELSE <<>>)

\* C21: the contact line holds the contact fields that are present and no
\* other, in the order email, phone, location, website, all on the baseline
\* 25 below the top margin, the k-th of m (k from 0) at
\* x = margin + k * (pageWidth - 2 * margin) / m. The divider is drawn 10
\* below that baseline and the cursor stands there afterwards, whether or
\* not a contact field was drawn.
C21_ContactLine ==
  LET drawn == OpsOfKind("contact")
      m == Len(PresentContactFields)
  IN  /\ Len(drawn) \in {0, m}
      /\ \A k \in 1..Len(drawn) :
           /\ drawn[k].text = PresentContactFields[k]
           /\ drawn[k].y = margin + 25
           /\ (drawn[k].x - margin) * m = (k - 1) * (pageWidth - 2 * margin)
      /\ \A i \in 1..Len(ops) :
           ops[i].kind = "divider" =>
             /\ Len(drawn) = m
             /\ i = 3 + m
             /\ ops[i].y = margin + 35
             /\ ops[i].x = margin
      /\ pc = "summary" => currentY = margin + 35 /\ HasKind("divider")

\* Three of the four fields are present, the first one missing: phone,
\* location and website were drawn a third of the width apart.
C21_Witness ==
  /\ pc = "summary"
  /\ content.personalInfo.email = ""
  /\ Len(OpsOfKind("contact")) = 3
  /\ OpsOfKind("contact")[2].x = margin + 60
  /\ OpsOfKind("contact")[3].x = margin + 120

\* ------------------------------------------------------- fallback: claims
\* C22: a template without an entry in templateStyles never stops the layout
\* and is laid out as "modern" is: its header and its section titles in
\* modern's header color, its divider in modern's accent color, its wrapped
\* lines modern's line spacing apart.
C22_FallbackToModern ==
  resume.template \notin StyledTemplates =>
    /\ pc \notin {"done", "failed"} => ENABLED LayoutStep
    /\ \A i \in 1..Len(ops) :
         /\ ops[i].kind \in {"name", "title", "sectionTitle"}
              => ops[i].color = templateStyles["modern"].headerColor
         /\ ops[i].kind = "divider"
              => ops[i].color = templateStyles["modern"].accentColor
         /\ ops[i].wrap > 0
              => ops[i].spacing = templateStyles["modern"].lineSpacing

\* ------------------------------------------------- repeated calls: claims
\* The calls that have returned a document, oldest first
Returned ==
  SelectSeq(IF pc = "done" THEN Append(history, Outcome) ELSE history,
            LAMBDA h : h.returned)

C12_StyleRecordOnly ==
  \A i, j \in 1..Len(Returned) :
    /\ Returned[i].resume.content = Returned[j].resume.content
    /\ StyleOf(Returned[i].resume.template)
         = StyleOf(Returned[j].resume.template)
    => Returned[i].document = Returned[j].document

\* The same content has been laid out under two template names that have
\* one style record, on more than one page.
C12_Witness ==
  /\ pc = "done"
  /\ numPages > 1
  /\ resume.template = "classic"
  /\ \E i \in 1..Len(history) :
       /\ history[i].returned
       /\ history[i].resume.template = "modern"
       /\ history[i].resume.content = content

\* ------------------------------------------------------ templates: claims
\* C13: the template ids form one closed set of exactly five, and the
\* validation enumeration is that set: every id validation accepts has a
\* style record and every id with a style record is accepted by validation.
C13_ClosedTemplateSet ==
  /\ Cardinality(resumeTemplate) = 5
  /\ Cardinality(StyledTemplates) = 5
  /\ resume.template \in resumeTemplate <=> resume.template \in StyledTemplates

\* -------------------------------------------------------- download: claims
\* C14: no request is sent and no download is counted while the layout runs.
\* The POST that records the download is issued only once generateResumePDF
\* has returned its document, and when generateResumePDF throws, no request
\* is issued and no download is counted.
C14_RecordAfterLayout ==
  /\ [](pc = "failed" => posted = "no" /\ downloads = 0)
  /\ [][(posted' # posted \/ downloads' # downloads)
          => /\ pc = "done"
             /\ result.returned
             /\ UNCHANGED layoutVars]_vars

\* A two-page document was returned and its download was counted.
C14_Witness ==
  /\ flow = "downloadMutation"
  /\ numPages > 1
  /\ result.returned
  /\ posted = "recorded"
  /\ downloads = 1

\* -------------------------------------------------- AI generations: claims
\* C15: whatever the interleaving of a user's concurrent requests to the
\* five AI endpoints, the user's aiGenerationCount never exceeds 3 and the
\* user is never handed more than 3 generations in total.
C15_RateLimit ==
  \A u \in Users :
    /\ aiGenerationCount[u] <= GenerationLimit
    /\ served[u] <= GenerationLimit

\* C23: a request adds exactly 1 to its user's aiGenerationCount in the step
\* in which it is answered 200, and the counter changes in no other step; a
\* request answered 403 has made no LLM call, and a request whose LLM call
\* failed is answered 500 without having changed the counter.
C23_CountIffServed ==
  /\ [](\A i \in Slots :
          /\ requests[i].pc = "403" => requests[i].llm = "none"
          /\ requests[i].pc = "200" => requests[i].llm = "answered"
          /\ requests[i].llm = "failed" => requests[i].pc = "500")
  /\ [][/\ \A i \in Slots :
            (requests'[i].pc = "200" /\ requests[i].pc # "200")
              => aiGenerationCount'[requests[i].user]
                   = aiGenerationCount[requests[i].user] + 1
        /\ \A u \in Users :
            aiGenerationCount'[u] # aiGenerationCount[u]
              => /\ aiGenerationCount'[u] = aiGenerationCount[u] + 1
                 /\ \E i \in Slots :
                      /\ requests[i].user = u
                      /\ requests[i].pc = "counting"
                      /\ requests'[i].pc = "200"
        /\ \A i \in Slots :
            requests'[i].llm = "failed" /\ requests[i].llm # "failed"
              => UNCHANGED aiGenerationCount]_vars

\* One user was answered 200, 403 and a 500 after a failed LLM call: the
\* counter stands one above the limit minus one.
C23_Witness ==
  /\ requests[1].pc = "200"
  /\ requests[2].pc = "500"
  /\ requests[2].llm = "failed"
  /\ requests[1].user = requests[2].user
  /\ aiGenerationCount[requests[1].user] = GenerationLimit

\* ------------------------------------------------------- id counters
CounterNames == {"userId", "resumeId"}

NoCounters == [none |-> TRUE]

Exists(doc) == doc # NoCounters

CallSlots == 1..NumCreates

NoCall == [kind |-> "", pc |-> "idle", id |-> 0, updated |-> FALSE]

\* What an earlier run of the server left behind: k users and k resumes
\* with the ids 1..k and the counters at k + 1, or nothing at all
Earlier(k) ==
  [docs |-> [name \in CounterNames |-> 1..k],
   counters |-> IF k = 0 THEN NoCounters
                ELSE [name \in CounterNames |-> k + 1]]

\* countersRef.get() is answered by Firestore; the rest of initCounters
\* runs when the event loop gets to it
InitCountersGet ==
  /\ initCounters.pc = "get"
  /\ initCounters' = [pc |-> "got", doc |-> countersDoc]
  /\ UNCHANGED <<layoutVars, history, downloadVars, aiVars, storeVars, authVars,
               sessionVars, wizardVars,
               currentId, countersDoc, creating, stored>>

\* if (!doc.exists) the counters are sent as they are in memory now, else
\* the memory counters take the values that were read (a missing value
\* reads as 1)
InitCountersLoad ==
  /\ initCounters.pc = "got"
  /\ IF Exists(initCounters.doc)
     THEN /\ currentId' = initCounters.doc
          /\ initCounters' = [initCounters EXCEPT !.pc = "done"]
     ELSE /\ initCounters' = [pc |-> "set", doc |-> currentId]
          /\ UNCHANGED currentId
  /\ UNCHANGED <<layoutVars, history, downloadVars, aiVars, storeVars, authVars,
               sessionVars, wizardVars,
               countersDoc, creating, stored>>

\* countersRef.set(...) is applied
InitCountersSet ==
  /\ initCounters.pc = "set"
  /\ countersDoc' = initCounters.doc
  /\ initCounters' = [initCounters EXCEPT !.pc = "done"]
  /\ UNCHANGED <<layoutVars, history, downloadVars, aiVars, storeVars, authVars,
               sessionVars, wizardVars,
               currentId, creating, stored>>

\* catch (error): the get or the set fails, the defaults stay
InitCountersFail ==
  /\ initCounters.pc \in {"get", "set"}
  /\ initCounters' = [initCounters EXCEPT !.pc = "done"]
  /\ UNCHANGED <<layoutVars, history, downloadVars, aiVars, storeVars, authVars,
               sessionVars, wizardVars,
               currentId, countersDoc, creating, stored>>

\* createUser or createResume is called: getNextId takes the memory
\* counter, increments it and awaits countersRef.update
getNextId ==
  /\ \E i \in CallSlots, name \in CounterNames :
       /\ creating[i].pc = "idle"
       /\ currentId[name] <= MaxId
       /\ creating' = [creating EXCEPT ![i] =
            [kind |-> name, pc |-> "updating", id |-> currentId[name],
             updated |-> FALSE]]
       /\ currentId' = [currentId EXCEPT ![name] = @ + 1]
  /\ UNCHANGED <<layoutVars, history, downloadVars, aiVars, storeVars, authVars,
               sessionVars, wizardVars,
               countersDoc, initCounters, stored>>

\* countersRef.update({[counterName]: id + 1}) is applied to the document
\* that exists; getNextId returns id and the caller awaits the set of its
\* record
CounterUpdate ==
  /\ \E i \in CallSlots :
       /\ creating[i].pc = "updating"
       /\ Exists(countersDoc)
       /\ countersDoc' = [countersDoc EXCEPT
            ![creating[i].kind] = creating[i].id + 1]
       /\ creating' = [creating EXCEPT ![i] =
            [@ EXCEPT !.pc = "writing", !.updated = TRUE]]
  /\ UNCHANGED <<layoutVars, history, downloadVars, aiVars, storeVars, authVars,
               sessionVars, wizardVars,
               currentId, initCounters, stored>>

\* catch (error): the update fails (always so without the document);
\* getNextId returns the memory counter as it is now and increments it
CounterUpdateFails ==
  /\ \E i \in CallSlots :
       /\ creating[i].pc = "updating"
       /\ creating' = [creating EXCEPT ![i] =
            [@ EXCEPT !.pc = "writing", !.id = currentId[creating[i].kind]]]
       /\ currentId' = [currentId EXCEPT ![creating[i].kind] = @ + 1]
  /\ UNCHANGED <<layoutVars, history, downloadVars, aiVars, storeVars, authVars,
               sessionVars, wizardVars,
               countersDoc, initCounters, stored>>

\* usersCollection / resumesCollection .doc(id.toString()).set(record)
CreateSet ==
  /\ \E i \in CallSlots :
       /\ creating[i].pc = "writing"
       /\ stored' = [stored EXCEPT ![creating[i].kind] = @ \cup {creating[i].id}]
       /\ creating' = [creating EXCEPT ![i].pc = "done"]
  /\ UNCHANGED <<layoutVars, history, downloadVars, aiVars, storeVars, authVars,
               sessionVars, wizardVars,
               currentId, countersDoc, initCounters>>

\* new FirestoreStorage(): both memory counters are 1 and initCounters()
\* has been started, not awaited
InitIds ==
  /\ LayoutInit({FullResume("modern")})
  /\ history = <<>>
  /\ DownloadIdle
  /\ AIIdle
  /\ StoreIdle
  /\ currentId = [name \in CounterNames |-> 1]
  /\ \E k \in 0..MaxEarlier :
       /\ countersDoc = Earlier(k).counters
       /\ stored = Earlier(k).docs
  /\ initCounters = [pc |-> "get", doc |-> NoCounters]
  /\ creating = [i \in CallSlots |-> NoCall]
  /\ AuthIdle
  /\ SessionIdle
  /\ WizardMounted

NextIds ==
  \/ InitCountersGet
  \/ InitCountersLoad
  \/ InitCountersSet
  \/ InitCountersFail
  \/ getNextId
  \/ CounterUpdate
  \/ CounterUpdateFails
  \/ CreateSet

SpecIds == InitIds /\ [][NextIds]_vars

\* ------------------------------------------------------------- sign-up
\* The usernames of POST /api/register and the uids of Firebase tokens
Usernames == {"ann", "kim"}

SignupRoutes == {"register", "firebase"}

SignupSlots == 1..NumSignups

NoSignup == [route |-> "", username |-> "", pc |-> "idle"]

\* storage.getUserByUsername(username): whether a stored user has it
getUserByUsername(username) ==
  \E id \in DOMAIN userDocs : userDocs[id] = username

\* POST /api/register with a username, or POST /api/auth/firebase with a
\* verified token for a uid; the handler awaits storage.getUserByUsername
SignupRequest ==
  /\ \E i \in SignupSlots, route \in SignupRoutes, username \in Usernames :
       /\ signups[i].pc = "idle"
       /\ signups' = [signups EXCEPT ![i] =
            [route |-> route, username |-> username, pc |-> "looking"]]
  /\ UNCHANGED <<layoutVars, history, downloadVars, aiVars, storeVars, idVars,
               userDocs, sessionVars, wizardVars>>

\* The lookup has answered: register rejects an existing username with
\* 400, a Firebase login logs the existing user in; without a user both
\* hash a password and await storage.createUser
SignupLookup ==
  /\ \E i \in SignupSlots :
       /\ signups[i].pc = "looking"
       /\ signups' = [signups EXCEPT ![i].pc =
            IF ~getUserByUsername(signups[i].username) THEN "creating"
            ELSE IF signups[i].route = "register" THEN "400"
            ELSE "200"]
  /\ UNCHANGED <<layoutVars, history, downloadVars, aiVars, storeVars, idVars,
               userDocs, sessionVars, wizardVars>>

\* storage.createUser: the next user id is taken and the user is set under
\* it; the handler logs the user in and answers 201 (register) or 200
createUser ==
  /\ \E i \in SignupSlots :
       /\ signups[i].pc = "creating"
       /\ LET id == currentId["userId"]
          IN  /\ currentId' = [currentId EXCEPT !["userId"] = id + 1]
              /\ userDocs' = [d \in DOMAIN userDocs \cup {id} |->
                   IF d = id THEN signups[i].username ELSE userDocs[d]]
       /\ signups' = [signups EXCEPT ![i].pc =
            IF signups[i].route = "register" THEN "201" ELSE "200"]
  /\ UNCHANGED <<layoutVars, history, downloadVars, aiVars, storeVars,
               countersDoc, initCounters, creating, stored, sessionVars,
               wizardVars>>

\* catch (error): an awaited call throws; register hands the error on,
\* the Firebase handler answers 401
SignupThrow ==
  /\ \E i \in SignupSlots :
       /\ signups[i].pc \in {"looking", "creating"}
       /\ signups' = [signups EXCEPT ![i].pc =
            IF signups[i].route = "register" THEN "500" ELSE "401"]
  /\ UNCHANGED <<layoutVars, history, downloadVars, aiVars, storeVars, idVars,
               userDocs, sessionVars, wizardVars>>

\* The server runs with its counters loaded; ann is registered as user 1
InitAuth ==
  /\ LayoutInit({FullResume("modern")})
  /\ history = <<>>
  /\ DownloadIdle
  /\ AIIdle
  /\ StoreIdle
  /\ currentId = [name \in CounterNames |-> 2]
  /\ countersDoc = [name \in CounterNames |-> 2]
  /\ initCounters = [pc |-> "done", doc |-> countersDoc]
  /\ creating = [i \in CallSlots |-> NoCall]
  /\ stored = [name \in CounterNames |-> {1}]
  /\ userDocs = [id \in {1} |-> "ann"]
  /\ signups = [i \in SignupSlots |-> NoSignup]
  /\ SessionIdle
  /\ WizardMounted

NextAuth ==
  \/ SignupRequest
  \/ SignupLookup
  \/ createUser
  \/ SignupThrow

SpecAuth == InitAuth /\ [][NextAuth]_vars

\* ------------------------------------------------------ session pings
\* What useAuth() gives the hook: null or a user
HookUsers == {"none"} \cup Users

notHookVars ==
  <<layoutVars, history, downloadVars, aiVars, storeVars, idVars, authVars,
    wizardVars>>

\* if (activityTimerRef.current) clearTimeout(activityTimerRef.current):
\* the pending timeouts without the one the ref names
clearTimeout(pending, ref) ==
  [t \in DOMAIN pending \ {ref} |-> pending[t]]

\* A handler that sets a timeout without clearing the one before
setTimeoutOnly(pending, ref, id) ==
  [t \in DOMAIN pending \cup {id} |->
     IF t = id THEN DEBOUNCE_TIME ELSE pending[t]]

\* resetActivityTimer: the timeout of the ref is cleared and timeout id is
\* set to send the ping after DEBOUNCE_TIME
resetActivityTimer(pending, ref, id) ==
  [t \in (DOMAIN pending \ {ref}) \cup {id} |->
     IF t = id THEN DEBOUNCE_TIME ELSE pending[t]]

\* The cleanup of the effect, when the effect had a user: the listeners
\* are removed and the timeout of the ref is cleared
AfterCleanup ==
  IF hookUser # "none" /\ activityTimerRef # 0
  THEN [pending |-> clearTimeout(timers, activityTimerRef), ref |-> 0]
  ELSE [pending |-> timers, ref |-> activityTimerRef]

\* The component mounts, or useAuth() gives another user: the cleanup of
\* the effect in place runs, then the effect runs with the new user
RunEffect ==
  /\ \E u \in HookUsers :
       /\ ~mounted \/ u # hookUser
       /\ timerCount < MaxTimers
       /\ LET c == IF mounted THEN AfterCleanup
                   ELSE [pending |-> timers, ref |-> activityTimerRef]
              id == timerCount + 1
          IN  IF u = "none"
              THEN /\ timers' = clearTimeout(c.pending, c.ref)
                   /\ activityTimerRef' = 0
                   /\ UNCHANGED timerCount
              ELSE /\ timers' = resetActivityTimer(c.pending, c.ref, id)
                   /\ activityTimerRef' = id
                   /\ timerCount' = id
       /\ hookUser' = u
       /\ mounted' = TRUE
  /\ UNCHANGED <<notHookVars, pings>>

\* mousedown, mousemove, keypress, scroll or touchstart while the
\* listeners are attached
Activity ==
  /\ mounted
  /\ hookUser # "none"
  /\ timerCount < MaxTimers
  /\ timers' = resetActivityTimer(timers, activityTimerRef, timerCount + 1)
  /\ activityTimerRef' = timerCount + 1
  /\ timerCount' = timerCount + 1
  /\ UNCHANGED <<notHookVars, hookUser, mounted, pings>>

\* A second passes in which no pending timeout is due
Tick ==
  /\ timers # <<>>
  /\ \A t \in DOMAIN timers : timers[t] > 0
  /\ timers' = [t \in DOMAIN timers |-> timers[t] - 1]
  /\ UNCHANGED <<notHookVars, hookUser, mounted, activityTimerRef, timerCount,
               pings>>

\* A timeout is due: sendPing posts to /api/ping; the ref keeps the id
sendPing ==
  /\ \E t \in DOMAIN timers :
       /\ timers[t] = 0
       /\ timers' = [o \in DOMAIN timers \ {t} |-> timers[o]]
  /\ pings' = pings + 1
  /\ UNCHANGED <<notHookVars, hookUser, mounted, activityTimerRef, timerCount>>

\* The component unmounts: the cleanup of the effect in place runs
Unmount ==
  /\ mounted
  /\ timers' = AfterCleanup.pending
  /\ activityTimerRef' = AfterCleanup.ref
  /\ mounted' = FALSE
  /\ UNCHANGED <<notHookVars, hookUser, timerCount, pings>>

InitSession ==
  /\ LayoutInit({FullResume("modern")})
  /\ history = <<>>
  /\ DownloadIdle
  /\ AIIdle
  /\ StoreIdle
  /\ IdIdle
  /\ AuthIdle
  /\ SessionIdle
  /\ WizardMounted

NextSession ==
  \/ RunEffect
  \/ Activity
  \/ Tick
  \/ sendPing
  \/ Unmount

SpecSession == InitSession /\ [][NextSession]_vars

\* ------------------------------------------------------- resume wizard
LastStep == NumSteps - 1

\* The ids the server gives a resume it creates
CreatedIds == {3, 4}

notWizardVars ==
  <<layoutVars, history, downloadVars, aiVars, storeVars, idVars, authVars,
    sessionVars>>

\* A mutationFn that creates a resume on every save
mutationFnPost(id) == [method |-> "POST", id |-> 0]

\* mutationFn: PUT /api/resumes/:resumeId with a resumeId, else
\* POST /api/resumes
mutationFn(id) ==
  IF id # 0 THEN [method |-> "PUT", id |-> id] ELSE [method |-> "POST", id |-> 0]

\* createResumeMutation.mutateAsync() called by a handler
Mutate(trigger) ==
  /\ saves < MaxSaves
  /\ saves' = saves + 1
  /\ saving' = [pending |-> TRUE, trigger |-> trigger,
                method |-> mutationFn(resumeId).method,
                id |-> mutationFn(resumeId).id, from |-> currentStep]
  /\ UNCHANGED <<notWizardVars, currentStep, resumeId, posts, wizardToast,
               navigated>>

\* The buttons are disabled while the mutation is pending
Clickable == ~saving.pending /\ ~navigated

\* Next on a step before the last, with the step's fields valid
handleNext ==
  /\ Clickable
  /\ currentStep # LastStep
  /\ Mutate("next")

\* Previous, disabled on step 0
handlePrevious ==
  /\ Clickable
  /\ currentStep # 0
  /\ Mutate("previous")

\* Finish & Save on the last step
handleFinish ==
  /\ Clickable
  /\ currentStep = LastStep
  /\ Mutate("finish")

\* The request succeeds: onSuccess keeps the id of the first creation and
\* toasts, then the handler that awaited the save goes on
SaveSucceeds ==
  /\ saving.pending
  /\ \E data \in IF saving.method = "POST" THEN CreatedIds ELSE {saving.id} :
       resumeId' = IF resumeId = 0 THEN data ELSE resumeId
  /\ posts' = IF saving.method = "POST" THEN posts + 1 ELSE posts
  /\ wizardToast' = "Resume saved"
  /\ currentStep' =
       IF saving.trigger = "next" /\ saving.from < NumSteps - 1
       THEN saving.from + 1
       ELSE IF saving.trigger = "previous" /\ saving.from > 0
       THEN saving.from - 1
       ELSE currentStep
  /\ navigated' = (saving.trigger = "finish")
  /\ saving' = [saving EXCEPT !.pending = FALSE]
  /\ UNCHANGED <<notWizardVars, saves>>

\* The request fails: onError toasts and mutateAsync rejects, so the
\* handler stops
SaveFails ==
  /\ saving.pending
  /\ wizardToast' = "Save failed"
  /\ saving' = [saving EXCEPT !.pending = FALSE]
  /\ UNCHANGED <<notWizardVars, currentStep, resumeId, posts, saves, navigated>>

InitWizard ==
  /\ LayoutInit({FullResume("modern")})
  /\ history = <<>>
  /\ DownloadIdle
  /\ AIIdle
  /\ StoreIdle
  /\ IdIdle
  /\ AuthIdle
  /\ SessionIdle
  /\ WizardMounted

NextWizard ==
  \/ handleNext
  \/ handlePrevious
  \/ handleFinish
  \/ SaveSucceeds
  \/ SaveFails

SpecWizard == InitWizard /\ [][NextWizard]_vars

\* ------------------------------------------------------ resumes: claims
\* The request that takes the step
Acting(i) == requests'[i] # requests[i]

\* C24: no request of a user reads, changes or deletes a resume of another
\* user. A step in which a response receives a resume, and a step that
\* changes or deletes a stored resume, is taken by a request of the user
\* the resume belongs to when the step is taken.
C24_Isolation ==
  [][/\ \A i \in Slots :
          (Acting(i) /\ requests'[i].sent # requests[i].sent)
            => resumeDocs[requests[i].id].userId = requests[i].user
     /\ \A id \in DOMAIN resumeDocs :
          (id \notin DOMAIN resumeDocs' \/ resumeDocs'[id] # resumeDocs[id])
            => \A i \in Slots :
                 Acting(i) => requests[i].user = resumeDocs[id].userId]_vars

\* C25: the id, userId and createdAt of a stored resume never change, and
\* its downloads change only by +1 in a step of the download route.
C25_ServerFields ==
  [][\A id \in DOMAIN resumeDocs \cap DOMAIN resumeDocs' :
       /\ resumeDocs'[id].id = resumeDocs[id].id
       /\ resumeDocs'[id].userId = resumeDocs[id].userId
       /\ resumeDocs'[id].createdAt = resumeDocs[id].createdAt
       /\ resumeDocs'[id].downloads # resumeDocs[id].downloads
            => /\ resumeDocs'[id].downloads = resumeDocs[id].downloads + 1
               /\ \A i \in Slots :
                    Acting(i) => requests[i].route = "download"]_vars

\* ---------------------------------------------------------- ids: claims
\* The ids the calls have been given
IssuedIds(name) ==
  {creating[i].id : i \in {j \in CallSlots :
     creating[j].kind = name /\ creating[j].pc \in {"writing", "done"}}}

\* C26: no createUser or createResume writes its record under an id that
\* is already the id of an existing document of the same kind.
C26_FreshIds ==
  [][\A i \in CallSlots :
       (creating[i].pc = "writing" /\ creating'[i].pc = "done")
         => creating[i].id \notin stored[creating[i].kind]]_vars

\* C27: once initCounters has finished and no counter update is pending,
\* the stored counter of each kind is greater than every id issued.
C27_StoredCounterAhead ==
  (/\ initCounters.pc = "done"
   /\ \A i \in CallSlots : creating[i].pc # "updating")
    => \A name \in CounterNames :
         \A id \in IssuedIds(name) :
           /\ Exists(countersDoc)
           /\ countersDoc[name] > id

\* ------------------------------------------------------ sign-up: claims
\* C28: no two stored users have the same username, whatever the
\* interleaving of registrations and Firebase logins.
C28_UniqueUsernames ==
  \A a \in DOMAIN userDocs, b \in DOMAIN userDocs :
    userDocs[a] = userDocs[b] => a = b

\* ------------------------------------------------- session pings: claims
\* The hook has a user and its component is mounted
LoggedIn == mounted /\ hookUser # "none"

\* C29: at most one ping timer is pending; an activity event while a user
\* is logged in leaves exactly one pending timer, a new one with 60 seconds
\* to go; a ping is sent only in a step in which a due timer expires; and
\* while the hook has no user or is torn down no timer is pending, so that
\* no ping is sent.
C29_PingTimer ==
  /\ [](/\ Cardinality(DOMAIN timers) <= 1
        /\ ~LoggedIn => timers = <<>>)
  /\ [][/\ (LoggedIn /\ LoggedIn' /\ hookUser' = hookUser
              /\ timerCount' # timerCount)
             => /\ DOMAIN timers' = {timerCount'}
                /\ timerCount' \notin DOMAIN timers
                /\ timers'[timerCount'] = DEBOUNCE_TIME
        /\ pings' # pings
             => /\ pings' = pings + 1
                /\ LoggedIn
                /\ \E t \in DOMAIN timers :
                     timers[t] = 0 /\ t \notin DOMAIN timers']_vars

\* After an activity event the second timer expired and its ping was
\* sent; then the user logged out.
C29_Witness ==
  /\ pings = 1
  /\ timerCount = 2
  /\ mounted
  /\ hookUser = "none"
  /\ timers = <<>>

\* ------------------------------------------------------- wizard: claims
\* C30: the wizard has at most one successful POST /api/resumes; once it
\* has a resumeId the id never changes and every save it starts is a PUT to
\* that id; the step index stays within 0..5 and changes only by one, in
\* the step in which a save started by Next or Previous succeeds.
C30_AutoSave ==
  /\ [](/\ posts <= 1
        /\ currentStep \in 0..5
        /\ (posts = 1) = (resumeId # 0))
  /\ [][/\ resumeId # 0 => resumeId' = resumeId
        /\ (resumeId # 0 /\ saves' # saves)
             => saving'.method = "PUT" /\ saving'.id = resumeId
        /\ currentStep' # currentStep
             => /\ currentStep' \in {currentStep - 1, currentStep + 1}
                /\ saving.pending
                /\ ~saving'.pending
                /\ saving.trigger \in {"next", "previous"}
                /\ wizardToast' = "Resume saved"]_vars

\* The first save failed, the second created resume 3, later saves were
\* PUTs, and the wizard finished from the last step.
C30_Witness ==
  /\ navigated
  /\ currentStep = 5
  /\ resumeId = 3
  /\ posts = 1
  /\ saves > NumSteps
  /\ saving.method = "PUT"
  /\ saving.id = 3

====
